---- MODULE Spec2Model ----
(***************************************************************************)
(* Compression Lab (CUDA): the LZ77 coder (lz77.cu), the E8 lattice coder  *)
(* and the arithmetic coder (e8_lattice.cu, which also holds common.cuh).  *)
(*                                                                         *)
(* One compress call is modelled from entry to its end.  `codec` says      *)
(* which entry point was called, `pc` where the host code stands; kernels  *)
(* run between their launch and the following cudaDeviceSynchronize, in    *)
(* stream order.  Device words are kept as naturals; a 32-bit word that    *)
(* can exceed 2^31 is kept as its two 16-bit halves <<hi, lo>>.            *)
(*                                                                         *)
(* Two TypeScript parts follow: the E8 root generators of Entropy Garden   *)
(* (websocket.ts) and Quantum Navigator (e8lattice.ts), and the            *)
(* reconnecting EntropyWebSocket of websocket.ts.  Each part has its own   *)
(* initial predicate and next-state relation; the variables of the parts   *)
(* that are not running keep their idle values.                            *)
(***************************************************************************)
EXTENDS Integers, Sequences, FiniteSets, TLC

VARIABLES
    codec,        \* "lz" | "e8" | "ac": the entry point called ("none": no compress call)
    pc,           \* position of the host code
    inPat,        \* the caller's buffer h_input is inLead zero bytes, then inPat repeated ...
    inLead,       \* the number of zero bytes before the first repetition
    inputSize,    \* ... to inputSize bytes
    allocated,    \* device buffers cudaMalloc'ed and not yet cudaFree'd
    outCap,       \* *outputSize on entry (the destination capacity)
    outputSize,   \* *outputSize as the call leaves it
    hostOut,      \* what was copied to h_output, in the units copied
    hostBytes,    \* number of bytes written to h_output
    result,       \* the CompressionResult under construction
    \* ---- LZ77 device state
    hashHead,     \* d_hashHead, kept for the hash values of the input only
    hashPrev,     \* d_hashPrev[0..inputSize-1]
    resetDone,    \* hash values whose buildHashTable thread has run line 41
    bi,           \* loop variable i of buildHashTable's thread (0,0)
    matchOffset,  \* d_matchOffset
    matchLength,  \* d_matchLength
    findDone,     \* findMatches warps that have finished
    output,       \* d_output (token words)
    ei,           \* encodeTokens' cursor i
    outIdx,       \* encodeTokens' local outIdx
    outputPos,    \* *d_outputPos
    numTokens,    \* host copy of *d_outputPos
    \* ---- E8 device state
    dInput,          \* d_input[0..paddedSize-1] of e8LatticeCompress
    dRoots,          \* d_roots[0..1919] (0-based), each float kept as twice its value
    rootsDone,       \* initE8Roots warps that have finished
    dVectors,        \* d_vectors, each float kept as 1020 times its value
    dRootIndices,    \* d_rootIndices
    dResiduals,      \* d_residuals, each float kept as 1020 times its value
    dEncoded,        \* d_encodedResiduals
    callNo,          \* e8LatticeCompress calls the process has made
    rootRuns,        \* runs of initE8Roots the process has completed
    prevRoots,       \* the table the last completed run of initE8Roots left
    \* ---- arithmetic coder state
    dFreq,           \* d_freq[0..255]
    merged,          \* <<block, symbol>> whose merge (line 306) has run
    temp,            \* buildCDF's shared temp[0..255]
    scanVal,         \* buildCDF's local `val`, per thread
    cdfPhase,        \* the barrier-delimited phase buildCDF is in
    cdfWarps,        \* buildCDF warps that have finished that phase
    dCdf,            \* d_cdf[0..255]
    dOutput,         \* d_output, kept for the words written only
    dOutputLengths,  \* d_outputLengths
    encDone,         \* encodeBlocks blocks that have finished
    hOutputLengths,  \* h_outputLengths (<<>> while not allocated)
    \* ---- the TypeScript root generators
    gen,             \* the generator running: "garden" | "navigator" | "done"
    genPhase,        \* "typeA" | "typeB" | "end": the loop nest it is in
    gi,              \* loop variable i
    gj,              \* loop variable j
    gk,              \* position in the two sign loops: s1 = gk \div 2, s2 = gk % 2
    gmask,           \* loop variable mask
    roots8D,         \* the array under construction, each number kept as twice its value
    gardenRoots,     \* what generateE8Roots returned
    \* ---- EntropyWebSocket
    ws,              \* this.ws: a socket (1, 2, ...) or 0 for null
    sockState,       \* readyState of every WebSocket created so far
    timers,          \* pending setTimeout callbacks: delay -> how many
    reconnectDelay,  \* this.reconnectDelay
    connected,       \* this._connected
    userClosed       \* disconnect() was called and the application has not called connect() since

lzVars == <<hashHead, hashPrev, resetDone, bi, matchOffset, matchLength,
            findDone, output, ei, outIdx, outputPos, numTokens>>
e8Proc == <<callNo, rootRuns, prevRoots>>
e8Vars == <<dInput, dRoots, rootsDone, dVectors, dRootIndices, dResiduals,
            dEncoded, e8Proc>>
hostVars == <<codec, pc, inPat, inLead, inputSize, allocated, outCap, outputSize,
              hostOut, hostBytes, result>>
hostVars_but_pc == <<codec, inPat, inLead, inputSize, allocated, outCap, outputSize,
                     hostOut, hostBytes, result>>
acVars == <<dFreq, merged, temp, scanVal, cdfPhase, cdfWarps, dCdf, dOutput,
            dOutputLengths, encDone, hOutputLengths>>
genVars == <<gen, genPhase, gi, gj, gk, gmask, roots8D, gardenRoots>>
wsVars == <<ws, sockState, timers, reconnectDelay, connected, userClosed>>
tsVars == <<genVars, wsVars>>
vars == <<hostVars, lzVars, e8Vars, acVars, tsVars>>

\* ------------------------------------------------------------------ bounds
\* Longest exhaustively enumerated input (bytes).
MaxLen == 5
\* Most repetitions of a 4-byte pattern.
MaxRep == 2

\* --------------------------------------------------------- program constants
WINDOW_SIZE == 32768
MIN_MATCH == 3
MAX_MATCH == 258
HASH_BITS == 15
HASH_SIZE == 32768
BLOCK_SIZE == 256
WARP_SIZE == 32

\* What an element of a cudaMalloc'ed buffer holds before its first write.
Uninit == -2

\* ------------------------------------------------------------ bit helpers
RECURSIVE BitXor(_, _)
BitXor(a, b) ==
    IF a = 0 THEN b
    ELSE IF b = 0 THEN a
    ELSE (((a % 2) + (b % 2)) % 2) + 2 * BitXor(a \div 2, b \div 2)

RECURSIVE BitOr(_, _)
BitOr(a, b) ==
    IF a = 0 THEN b
    ELSE IF b = 0 THEN a
    ELSE (IF a % 2 = 1 \/ b % 2 = 1 THEN 1 ELSE 0) + 2 * BitOr(a \div 2, b \div 2)

Min(a, b) == IF a < b THEN a ELSE b
Max(a, b) == IF a > b THEN a ELSE b

\* ------------------------------------------------------------------ input
\* h_input[i], 0-based.
In(i) == IF i < inLead THEN 0 ELSE inPat[((i - inLead) % Len(inPat)) + 1]

RECURSIVE SeqsUpTo(_, _)
SeqsUpTo(S, n) ==
    IF n = 0 THEN {<<>>}
    ELSE LET shorter == SeqsUpTo(S, n - 1)
         IN  shorter \cup {Append(s, x) : s \in {t \in shorter : Len(t) = n - 1}, x \in S}

\* Bytes of the exhaustive LZ77 inputs: 0, 1, and 32, whose hash collides
\* with others ((1,0,c) and (0,32,c)) and overflows the 15-bit mask.
LzAlphabet == {0, 1, 32}
\* Bytes of the repeated 4-byte patterns ("ABCD").
PatternBytes == {65, 66, 67, 68}
Patterns ==
    {p \in [1..4 -> PatternBytes] : \A i, j \in 1..4 : i # j => p[i] # p[j]}

LzInputs ==
    {[pat |-> s, n |-> Len(s)] : s \in SeqsUpTo(LzAlphabet, MaxLen)}
    \cup {[pat |-> p, n |-> 4 * r] : p \in Patterns, r \in 2..MaxRep}

\* The device state of a codec that was not called.
LzIdle ==
    /\ hashHead = <<>> /\ hashPrev = <<>> /\ resetDone = {} /\ bi = 0
    /\ matchOffset = <<>> /\ matchLength = <<>> /\ findDone = {}
    /\ output = <<>> /\ ei = 0 /\ outIdx = 0
    /\ outputPos = Uninit /\ numTokens = Uninit
E8Idle ==
    /\ dInput = <<>> /\ dRoots = <<>> /\ rootsDone = {} /\ dVectors = <<>>
    /\ dRootIndices = <<>> /\ dResiduals = <<>> /\ dEncoded = <<>>
    /\ callNo = 0 /\ rootRuns = 0 /\ prevRoots = <<>>
GenIdle ==
    /\ gen = "none" /\ genPhase = "none" /\ gi = 0 /\ gj = 0 /\ gk = 0 /\ gmask = 0
    /\ roots8D = <<>> /\ gardenRoots = <<>>
WsIdle ==
    /\ ws = 0 /\ sockState = <<>> /\ timers = <<>> /\ reconnectDelay = 0
    /\ connected = FALSE /\ userClosed = FALSE
TsIdle == GenIdle /\ WsIdle
AcIdle ==
    /\ dFreq = <<>> /\ merged = {} /\ temp = <<>> /\ scanVal = <<>>
    /\ cdfPhase = 0 /\ cdfWarps = {} /\ dCdf = <<>> /\ dOutput = <<>>
    /\ dOutputLengths = <<>> /\ encDone = {} /\ hOutputLengths = <<>>

\* ------------------------------------------------------------ LZ77 kernels
\* hashFunc: ((a << 10) ^ (b << 5) ^ c) & (HASH_SIZE - 1)
hashFunc(a, b, c) == BitXor(BitXor(a * 1024, b * 32), c) % HASH_SIZE

\* Hash of the three bytes at position i (i + 2 < inputSize).
HashAt(i) == hashFunc(In(i), In(i + 1), In(i + 2))

\* Positions buildHashTable's loop visits: i + 2 < size.
Inserted(n) == {i \in 0..(n - 1) : i + 2 < n}

\* The entries of d_hashHead the call can ever make differ from -1: every
\* other entry holds -1 from the cudaMemset of line 171 on, and the only
\* other writes to it are the stores of -1 of line 41.
HashSet == {HashAt(i) : i \in Inserted(inputSize)}

\* buildHashTable, line 41, the thread with global index h: hashHead[h] = -1.
\* Threads of block 0 (h < BLOCK_SIZE) pass the barrier of line 44 before
\* thread (0,0) starts its loop; the barrier does not hold back the threads
\* of the other 127 blocks, which run at any time until the kernel ends.
ResetHead(h) ==
    /\ codec = "lz" /\ pc = "lz_build"
    /\ h \in HashSet \ resetDone
    /\ hashHead' = [hashHead EXCEPT ![h] = -1]
    /\ resetDone' = resetDone \cup {h}
    /\ UNCHANGED <<tsVars, e8Vars, acVars, hostVars, hashPrev, bi, matchOffset, matchLength, findDone,
                   output, ei, outIdx, outputPos, numTokens>>

\* The barrier of line 44 for thread (0,0): its own block's stores are done.
Block0Synced == \A h \in HashSet : h < BLOCK_SIZE => h \in resetDone

\* buildHashTable, lines 48-52: one iteration of the loop of thread (0,0).
BuildInsert ==
    /\ codec = "lz" /\ pc = "lz_build"
    /\ Block0Synced
    /\ bi + 2 < inputSize
    /\ LET h == HashAt(bi)
       IN  /\ hashPrev' = [hashPrev EXCEPT ![bi + 1] = hashHead[h]]
           /\ hashHead' = [hashHead EXCEPT ![h] = bi]
    /\ bi' = bi + 1
    /\ UNCHANGED <<tsVars, e8Vars, acVars, hostVars, resetDone, matchOffset, matchLength, findDone,
                   output, ei, outIdx, outputPos, numTokens>>

\* The kernel has ended: every thread has run, the loop has left.
BuildHashTableEnd ==
    /\ codec = "lz" /\ pc = "lz_build"
    /\ resetDone = HashSet
    /\ ~(bi + 2 < inputSize)
    /\ pc' = "lz_find"
    /\ UNCHANGED <<tsVars, e8Vars, acVars, codec, inPat, inLead, inputSize, allocated, outCap, outputSize,
                   hostOut, hostBytes, result, lzVars>>

\* findMatches line 83, `idx - pos <= WINDOW_SIZE`: idx is a size_t, so the
\* difference is taken modulo 2^64; for pos > idx it wraps to at least
\* 2^64 - 2^31, which is above WINDOW_SIZE.
WithinWindow(idx, pos) == idx >= pos /\ idx - pos <= WINDOW_SIZE

\* The run length with the test of line 86 as `idx + len <= size`: the
\* comparison goes on to the byte one past the end.
RECURSIVE RunLenPastEnd(_, _, _)
RunLenPastEnd(pos, idx, len) ==
    IF len < MAX_MATCH /\ idx + len <= inputSize /\ In(pos + len) = In(idx + len)
    THEN RunLenPastEnd(pos, idx, len + 1)
    ELSE len

\* findMatches lines 85-88: the run length of candidate pos against idx.
RECURSIVE RunLen(_, _, _)
RunLen(pos, idx, len) ==
    IF len < MAX_MATCH /\ idx + len < inputSize /\ In(pos + len) = In(idx + len)
    THEN RunLen(pos, idx, len + 1)
    ELSE len

\* findMatches lines 83-96: the chain walk; the result is <<bestOff, bestLen>>.
RECURSIVE ChainWalk(_, _, _, _, _)
ChainWalk(idx, pos, searchLimit, bestOff, bestLen) ==
    IF pos >= 0 /\ WithinWindow(idx, pos) /\ searchLimit > 0
    THEN LET len == RunLen(pos, idx, 0)
             better == len >= MIN_MATCH /\ len > bestLen
         IN  ChainWalk(idx, hashPrev[pos + 1], searchLimit - 1,
                       IF better THEN idx - pos ELSE bestOff,
                       IF better THEN len ELSE bestLen)
    ELSE <<bestOff, bestLen>>

\* findMatches for the thread of position idx: <<matchOffset, matchLength>>.
FindMatchAt(idx) ==
    IF idx + 2 >= inputSize
    THEN <<0, 0>>
    ELSE ChainWalk(idx, hashHead[HashAt(idx)], 64, 0, 0)

\* findMatches, one warp: the threads of a warp run the kernel together.
\* The threads share nothing they write (thread idx writes matchOffset[idx]
\* and matchLength[idx] only, and reads only what buildHashTable left), so
\* the order inside a warp cannot be observed. Threads at idx >= size
\* write nothing.
WarpThreads(w) ==
    {idx \in 0..(inputSize - 1) : idx \div WARP_SIZE = w}

FindMatches(w) ==
    /\ codec = "lz" /\ pc = "lz_find"
    /\ w \notin findDone
    /\ WarpThreads(w) # {}
    /\ matchOffset' = [i \in 1..inputSize |->
                        IF i - 1 \in WarpThreads(w) THEN FindMatchAt(i - 1)[1]
                        ELSE matchOffset[i]]
    /\ matchLength' = [i \in 1..inputSize |->
                        IF i - 1 \in WarpThreads(w) THEN FindMatchAt(i - 1)[2]
                        ELSE matchLength[i]]
    /\ findDone' = findDone \cup {w}
    /\ UNCHANGED <<tsVars, e8Vars, acVars, hostVars, hashHead, hashPrev, resetDone, bi, output, ei,
                   outIdx, outputPos, numTokens>>

\* Warps of the launch that hold a thread with idx < size.
FindWarps == {idx \div WARP_SIZE : idx \in 0..(inputSize - 1)}

FindMatchesEnd ==
    /\ codec = "lz" /\ pc = "lz_find"
    /\ findDone = FindWarps
    /\ pc' = "lz_encode"
    /\ UNCHANGED <<tsVars, e8Vars, acVars, codec, inPat, inLead, inputSize, allocated, outCap, outputSize,
                   hostOut, hostBytes, result, lzVars>>

\* Line 127 with a shift of 15 for 16: the lowest bit of len - 3 falls on
\* bit 15.
MatchTokenShift15(len, off) ==
    <<BitOr(BitOr(32768, ((len - 3) \div 2) % 65536), off \div 65536) % 65536,
      BitOr(((len - 3) % 2) * 32768, off % 65536)>>

\* encodeTokens line 127: 0x80000000 | ((len - 3) << 16) | off, as <<hi, lo>>.
MatchToken(len, off) ==
    <<BitOr(BitOr(32768, (len - 3) % 65536), off \div 65536) % 65536,
      off % 65536>>

\* Line 131 storing the byte with the match flag set.
LiteralTokenFlagged(b) == <<32768, b>>

\* encodeTokens line 131: the literal byte.
LiteralToken(b) == <<0, b>>

\* encodeTokens lines 121-134: one iteration of the loop.
EncodeStep ==
    /\ codec = "lz" /\ pc = "lz_encode"
    /\ ei < inputSize
    /\ LET len == matchLength[ei + 1]
           off == matchOffset[ei + 1]
       IN  IF len >= MIN_MATCH
           THEN /\ output' = [output EXCEPT ![outIdx + 1] = MatchToken(len, off)]
                /\ ei' = ei + len
           ELSE /\ output' = [output EXCEPT ![outIdx + 1] = LiteralToken(In(ei))]
                /\ ei' = ei + 1
    /\ outIdx' = outIdx + 1
    /\ UNCHANGED <<tsVars, e8Vars, acVars, hostVars, hashHead, hashPrev, resetDone, bi, matchOffset,
                   matchLength, findDone, outputPos, numTokens>>

\* encodeTokens line 136, *outputPos = outIdx, and the kernel's end.
EncodeTokensEnd ==
    /\ codec = "lz" /\ pc = "lz_encode"
    /\ ~(ei < inputSize)
    /\ outputPos' = outIdx
    /\ pc' = "lz_sync"
    /\ UNCHANGED <<tsVars, e8Vars, acVars, codec, inPat, inLead, inputSize, allocated, outCap, outputSize,
                   hostOut, hostBytes, result, hashHead, hashPrev, resetDone,
                   bi, matchOffset, matchLength, findDone, output, ei, outIdx,
                   numTokens>>

\* --------------------------------------------------------------- host code
\* common.cuh, initResult.
\* The float fields are kept exactly, as fractions <<numerator, denominator>>:
\* timeMs in milliseconds, ratio as it is, throughputGBps times 10^6 (bytes
\* per millisecond).
initResult(originalSize) ==
    [originalSize |-> originalSize, compressedSize |-> 0, timeMs |-> <<0, 1>>,
     throughputGBps |-> <<0, 1>>, ratio |-> <<0, 1>>, errorCode |-> 0]

\* CudaTimer::stopTimer: the elapsed milliseconds cudaEventElapsedTime
\* stores, nothing or some; none of the timer's CUDA calls is checked, so
\* after a failed one `ms` is returned as it was, uninitialized (-1 here).
Times == {<<0, 1>>, <<1, 2>>, <<3, 1>>, <<-1, 1>>}

\* finalizeResult without the test of line 590.
finalizeResultUnguarded(r) ==
    [r EXCEPT !.ratio = <<r.originalSize, r.compressedSize>>,
              !.throughputGBps =
                  IF r.timeMs[1] > 0
                  THEN <<r.originalSize * r.timeMs[2], r.timeMs[1]>> ELSE @]

\* common.cuh, finalizeResult: (originalSize / 1e9) / (timeMs / 1000.0) is
\* originalSize / timeMs divided by 10^6.
finalizeResult(r) ==
    [r EXCEPT !.ratio =
                  IF r.compressedSize > 0
                  THEN <<r.originalSize, r.compressedSize>> ELSE @,
              !.throughputGBps =
                  IF r.timeMs[1] > 0
                  THEN <<r.originalSize * r.timeMs[2], r.timeMs[1]>> ELSE @]

\* CUDA_CHECK(call): on an error the macro prints and calls
\* exit(EXIT_FAILURE); nothing of the caller runs after it.
CudaCheck(ok, next) == pc' = IF ok THEN next ELSE "exited"

\* The destination capacities tried against a required size req: none, one
\* byte too few, exactly enough, one to spare.
Capacities(req) == {c \in {0, req - 1, req, req + 1} : c >= 0}

\* lz77Compress lines 161-167, in order.
LzBuffers == <<"d_input", "d_hashHead", "d_hashPrev", "d_matchOffset",
               "d_matchLength", "d_output", "d_outputPos">>

\* One CUDA_CHECK(cudaMalloc(...)) of lines 161-167.
LzMalloc ==
    /\ codec = "lz" /\ pc = "lz_alloc"
    /\ \E ok \in BOOLEAN :
        LET k == Cardinality(allocated) + 1
        IN  /\ allocated' = IF ok THEN allocated \cup {LzBuffers[k]} ELSE allocated
            /\ CudaCheck(ok, IF k = Len(LzBuffers) THEN "lz_copyin" ELSE "lz_alloc")
    /\ UNCHANGED <<tsVars, e8Vars, acVars, codec, inPat, inLead, inputSize, outCap, outputSize, hostOut,
                   hostBytes, result, lzVars>>

\* Line 170: the copy of the input to the device.
LzCopyIn ==
    /\ codec = "lz" /\ pc = "lz_copyin"
    /\ \E ok \in BOOLEAN : CudaCheck(ok, "lz_memset")
    /\ UNCHANGED <<tsVars, e8Vars, acVars, codec, inPat, inLead, inputSize, allocated, outCap, outputSize,
                   hostOut, hostBytes, result, lzVars>>

\* Line 171: cudaMemset(d_hashHead, 0xFF, ...), every entry -1.
LzMemset ==
    /\ codec = "lz" /\ pc = "lz_memset"
    /\ \E ok \in BOOLEAN :
        /\ hashHead' = IF ok THEN [h \in DOMAIN hashHead |-> -1] ELSE hashHead
        /\ CudaCheck(ok, "lz_build")
    /\ UNCHANGED <<tsVars, e8Vars, acVars, codec, inPat, inLead, inputSize, allocated, outCap, outputSize,
                   hostOut, hostBytes, result, hashPrev, resetDone, bi,
                   matchOffset, matchLength, findDone, output, ei, outIdx,
                   outputPos, numTokens>>

\* Lines 192-193: CUDA_CHECK(cudaDeviceSynchronize()), then timeMs.
LzSync ==
    /\ codec = "lz" /\ pc = "lz_sync"
    /\ \E ok \in BOOLEAN, t \in Times :
        /\ CudaCheck(ok, "lz_readpos")
        /\ result' = IF ok THEN [result EXCEPT !.timeMs = t] ELSE result
    /\ UNCHANGED <<tsVars, e8Vars, acVars, codec, inPat, inLead, inputSize, allocated, outCap, outputSize,
                   hostOut, hostBytes, lzVars>>

\* Line 197: numTokens is read back.
LzReadPos ==
    /\ codec = "lz" /\ pc = "lz_readpos"
    /\ \E ok \in BOOLEAN :
        /\ numTokens' = IF ok THEN outputPos ELSE numTokens
        /\ CudaCheck(ok, "lz_copyout")
    /\ UNCHANGED <<tsVars, e8Vars, acVars, hostVars_but_pc, hashHead, hashPrev, resetDone, bi,
                   matchOffset, matchLength, findDone, output, ei, outIdx,
                   outputPos>>

\* Line 200: the test that lets the copy to h_output happen.
LzFits(compressedBytes, cap) == compressedBytes <= cap

\* Lines 199-206: the size test, the copy to h_output, the reported sizes.
\* *outputSize on entry is read here for the first time; it is drawn here.
LzCopyOut ==
    /\ codec = "lz" /\ pc = "lz_copyout"
    /\ LET compressedBytes == numTokens * 4
       IN  \E cap \in Capacities(compressedBytes), ok \in BOOLEAN :
            /\ outCap' = cap
            /\ IF LzFits(compressedBytes, cap)
               THEN /\ hostOut' = IF ok THEN SubSeq(output, 1, numTokens) ELSE hostOut
                    /\ hostBytes' = IF ok THEN compressedBytes ELSE hostBytes
                    /\ CudaCheck(ok, "lz_cleanup")
               ELSE /\ ok
                    /\ pc' = "lz_cleanup"
                    /\ UNCHANGED <<hostOut, hostBytes>>
            /\ outputSize' = IF pc' = "exited" THEN outputSize ELSE compressedBytes
            /\ result' = IF pc' = "exited" THEN result
                         ELSE finalizeResult([result EXCEPT !.compressedSize = compressedBytes])
    /\ UNCHANGED <<tsVars, e8Vars, acVars, codec, inPat, inLead, inputSize, allocated, lzVars>>

\* Lines 209-218: the seven cudaFree calls and the return.
LzCleanup ==
    /\ codec = "lz" /\ pc = "lz_cleanup"
    /\ allocated' = allocated \ {LzBuffers[k] : k \in 1..Len(LzBuffers)}
    /\ pc' = "returned"
    /\ UNCHANGED <<tsVars, e8Vars, acVars, codec, inPat, inLead, inputSize, outCap, outputSize, hostOut,
                   hostBytes, result, lzVars>>

\* ------------------------------------------------------------ LZ77 claims
\* The caller's buffer as a sequence.
InputSeq == [i \in 1..inputSize |-> In(i - 1)]

\* The token format read back: bit 31, bits 30-16, bits 15-0.
TokenIsMatch(t) == t[1] >= 32768
TokenLength(t) == (t[1] % 32768) + 3
TokenOffset(t) == t[2]

\* The conceptual decoder: a match copies `len` bytes, one at a time, from
\* `off` bytes back in what is already decoded; -1 stands for a byte that
\* the decoded output does not hold.
RECURSIVE CopyBack(_, _, _)
CopyBack(out, off, len) ==
    IF len = 0 THEN out
    ELSE CopyBack(Append(out, IF off >= 1 /\ off <= Len(out)
                              THEN out[Len(out) - off + 1] ELSE -1),
                  off, len - 1)

RECURSIVE Decode(_, _, _)
Decode(tokens, k, out) ==
    IF k > Len(tokens) THEN out
    ELSE IF TokenIsMatch(tokens[k])
         THEN Decode(tokens, k + 1,
                     CopyBack(out, TokenOffset(tokens[k]), TokenLength(tokens[k])))
         ELSE Decode(tokens, k + 1, Append(out, tokens[k][2]))

\* The kernels named have ended.
LzBuilt == codec = "lz" /\ pc = "lz_find" /\ findDone = {}
LzFound ==
    /\ codec = "lz"
    /\ pc \in {"lz_encode", "lz_sync", "lz_readpos", "lz_copyout", "lz_cleanup",
               "returned"}
LzEncoded ==
    /\ codec = "lz"
    /\ pc \in {"lz_sync", "lz_readpos", "lz_copyout", "lz_cleanup", "returned"}

\* The positions a token covers, and the positions the first k tokens cover.
TokenSpan(t) == IF TokenIsMatch(t) THEN TokenLength(t) ELSE 1
RECURSIVE TokenCover(_, _)
TokenCover(tokens, k) ==
    IF k = 0 THEN 0 ELSE TokenCover(tokens, k - 1) + TokenSpan(tokens[k])

\* encodeTokens is running or has ended.
LzEncoding == LzEncoded \/ (codec = "lz" /\ pc = "lz_encode")

\* C18: the tokens encodeTokens has written cover [0, cursor) in increasing
\* order without gap or overlap: token k starts where the tokens before it
\* end, a literal is the input byte there and covers it alone, a match token
\* of length L is the record there and covers L positions; the cursor never
\* passes n and is n at the end; the number of tokens never exceeds n.
C18_TokenPartition ==
    LzEncoding =>
        /\ ei <= inputSize
        /\ outIdx <= inputSize
        /\ TokenCover(output, outIdx) = ei
        /\ \A k \in 1..outIdx :
            LET start == TokenCover(output, k - 1)
            IN  /\ start < inputSize
                /\ IF TokenIsMatch(output[k])
                   THEN /\ TokenLength(output[k]) = matchLength[start + 1]
                        /\ TokenLength(output[k]) >= MIN_MATCH
                        /\ start + TokenLength(output[k]) <= inputSize
                   ELSE /\ output[k] = <<0, In(start)>>
                        /\ matchLength[start + 1] < MIN_MATCH
        /\ LzEncoded => ei = inputSize /\ outputPos = outIdx

\* encodeTokens has ended on a stream with a literal followed by a match
\* token of more than 3 positions.
C18_Witness ==
    /\ LzEncoded
    /\ \E k \in 2..outIdx :
        /\ ~TokenIsMatch(output[k - 1])
        /\ TokenIsMatch(output[k]) /\ TokenLength(output[k]) > MIN_MATCH

\* C19: the token written for a match record with length in 3..258 and
\* offset in 1..32768 has bit 31 set, bits 30-16 equal to length - 3 and
\* bits 15-0 equal to offset, and reading the fields back gives the record;
\* the token written for a literal has bit 31 clear and is the input byte.
C19_TokenFormat ==
    (codec = "lz" /\ pc \in {"lz_encode", "lz_sync"} /\ outIdx >= 1) =>
        LET t == output[1]
            len == matchLength[1]
            off == matchOffset[1]
        IN  /\ t[1] \in 0..65535 /\ t[2] \in 0..65535
            /\ (len \in MIN_MATCH..MAX_MATCH /\ off \in 1..WINDOW_SIZE) =>
                /\ t[1] \div 32768 = 1
                /\ t[1] % 32768 = len - 3
                /\ t[2] = off
                /\ TokenIsMatch(t)
                /\ TokenLength(t) = len /\ TokenOffset(t) = off
            /\ len < MIN_MATCH =>
                /\ t[1] = 0
                /\ t[2] = In(0) /\ t[2] \in 0..255
                /\ ~TokenIsMatch(t)

\* The token of the longest match at the farthest offset has been written.
C19_Witness ==
    /\ codec = "lz" /\ pc = "lz_sync" /\ outIdx = 1
    /\ matchLength[1] = MAX_MATCH /\ matchOffset[1] = WINDOW_SIZE
    /\ output[1] = <<32768 + 255, 32768>>

\* lz77Compress has passed finalizeResult (line 206).
LzFinalized == codec = "lz" /\ pc \in {"lz_cleanup", "returned"}

\* C20: after finalizeResult, ratio is originalSize / compressedSize when
\* compressedSize > 0 and 0 when it is 0; throughput is
\* (originalSize / 1e9) / (timeMs / 1000) when timeMs > 0 and 0 when it is
\* 0; no quotient has a zero divisor; originalSize is the input size and
\* compressedSize the size reported in *outputSize.
C20_Metrics ==
    LzFinalized =>
        /\ result.ratio[2] # 0 /\ result.throughputGBps[2] # 0
        /\ result.compressedSize > 0 =>
                result.ratio[1] * result.compressedSize
                    = result.originalSize * result.ratio[2]
        /\ result.compressedSize = 0 => result.ratio[1] = 0
        /\ result.timeMs[1] > 0 =>
                result.throughputGBps[1] * result.timeMs[1]
                    = result.originalSize * result.timeMs[2] * result.throughputGBps[2]
        /\ result.timeMs[1] = 0 => result.throughputGBps[1] = 0
        /\ result.originalSize = inputSize
        /\ result.compressedSize = outputSize

\* A call on the empty input has passed finalizeResult with a time measured
\* and no compressed byte.
C20_Witness ==
    /\ LzFinalized
    /\ result.compressedSize = 0 /\ result.timeMs[1] > 0

\* C22: on an input of 0, 1 or 2 bytes buildHashTable inserts no position
\* (its loop is not entered: no head and no hashPrev entry is stored),
\* every thread of findMatches below the size takes the early return and
\* records the null match, encodeTokens writes one literal per input byte,
\* and the cursors of the kernels stay below the size where they read.
C22_ShortInput ==
    (codec = "lz" /\ inputSize <= 2) =>
        /\ bi = 0 /\ DOMAIN hashHead = {}
        /\ \A i \in 1..inputSize : hashPrev[i] = Uninit
        /\ \A idx \in 0..(inputSize - 1) : idx + 2 >= inputSize
        /\ LzFound =>
            \A p \in 1..inputSize : matchOffset[p] = 0 /\ matchLength[p] = 0
        /\ LzEncoding =>
            /\ ei = outIdx /\ ei <= inputSize
            /\ \A k \in 1..outIdx : output[k] = <<0, In(k - 1)>>
        /\ LzEncoded => outputPos = inputSize

\* encodeTokens has ended on an input of two bytes.
C22_Witness ==
    LzEncoded /\ inputSize = 2 /\ outputPos = 2 /\ output[2] = <<0, In(1)>>

\* C1: decoding the token stream of lz77Compress (literals copied, matches
\* copied from `offset` back for `length` bytes) gives back the input.
C1_RoundTrip ==
    LzEncoded => Decode(SubSeq(output, 1, outputPos), 1, <<>>) = InputSeq

\* The input is a 4-byte pattern of distinct bytes repeated at least twice.
IsRepeatedPattern ==
    /\ Len(inPat) = 4
    /\ \A i, j \in 1..4 : i # j => inPat[i] # inPat[j]
    /\ inputSize >= 8 /\ inputSize % 4 = 0

\* C2: on a repeated 4-byte pattern every position p >= 4 with 4 bytes left
\* has a match of length >= 4 at offset 4, and there are fewer tokens than
\* input bytes.
C2_RepeatedPattern ==
    /\ (LzFound /\ IsRepeatedPattern) =>
          \A p \in 4..(inputSize - 4) :
              matchLength[p + 1] >= 4 /\ matchOffset[p + 1] = 4
    /\ (LzEncoded /\ IsRepeatedPattern) => outputPos < inputSize

\* A match record that is a real back-reference at position p.
ValidMatch(p, off, len) ==
    /\ MIN_MATCH <= len /\ len <= MAX_MATCH
    /\ 1 <= off /\ off <= WINDOW_SIZE
    /\ off <= p
    /\ p + len <= inputSize
    /\ \A k \in 0..(len - 1) : In(p - off + k) = In(p + k)

\* C3: after findMatches every position holds the null match or a valid
\* back-reference; no record of length >= 3 has offset 0.
C3_MatchRecords ==
    LzFound =>
        \A p \in 0..(inputSize - 1) :
            \/ matchOffset[p + 1] = 0 /\ matchLength[p + 1] = 0
            \/ ValidMatch(p, matchOffset[p + 1], matchLength[p + 1])

\* The positions reached from i by following hashPrev, i first; the walk
\* stops at the first value that is no position, or after `fuel` links.
RECURSIVE Chain(_, _)
Chain(i, fuel) ==
    IF i < 0 \/ i >= inputSize \/ fuel = 0 THEN <<>>
    ELSE <<i>> \o Chain(hashPrev[i + 1], fuel - 1)

\* The value that ends the walk from i (the sentinel, if the chain is sound).
RECURSIVE ChainEnd(_, _)
ChainEnd(i, fuel) ==
    IF i < 0 \/ i >= inputSize \/ fuel = 0 THEN i
    ELSE ChainEnd(hashPrev[i + 1], fuel - 1)

\* C4: after buildHashTable each head is the greatest position with that
\* hash (-1 if none), and each chain runs through strictly decreasing
\* positions of one hash down to the sentinel -1.
C4_HashChains ==
    LzBuilt =>
        /\ \A h \in HashSet :
              /\ hashHead[h] \in Inserted(inputSize)
              /\ HashAt(hashHead[h]) = h
              /\ \A i \in Inserted(inputSize) : HashAt(i) = h => i <= hashHead[h]
        /\ \A i \in Inserted(inputSize) :
              LET c == Chain(i, inputSize + 1)
              IN  /\ \A k \in 1..(Len(c) - 1) : c[k + 1] < c[k]
                  /\ \A k \in 1..Len(c) : HashAt(c[k]) = HashAt(i)
                  /\ ChainEnd(i, inputSize + 1) = -1

\* The candidates the loop of lines 83-96 examines for position idx, in
\* order, starting from pos with searchLimit tests left.
RECURSIVE Examined(_, _, _)
Examined(idx, pos, searchLimit) ==
    IF pos >= 0 /\ WithinWindow(idx, pos) /\ searchLimit > 0
    THEN <<pos>> \o Examined(idx, hashPrev[pos + 1], searchLimit - 1)
    ELSE <<>>

\* The first candidate of ex whose run against idx is the longest, if that
\* run has MIN_MATCH bytes or more: <<offset, length>>, else the null record.
LongestFirst(idx, ex) ==
    LET lens == [k \in 1..Len(ex) |-> RunLen(ex[k], idx, 0)]
        good == {k \in 1..Len(ex) :
                    /\ lens[k] >= MIN_MATCH
                    /\ \A m \in 1..Len(ex) : lens[m] <= lens[k]
                    /\ \A m \in 1..(k - 1) : lens[m] < lens[k]}
    IN  IF good = {} THEN <<0, 0>>
        ELSE LET k == CHOOSE k \in good : TRUE IN <<idx - ex[k], lens[k]>>

\* C28: for a position p with 3 bytes or more left, findMatches examines at
\* most 64 candidates, each an earlier position within WINDOW_SIZE of p,
\* nearest first, and records the longest run among them, the first examined
\* (the nearest) on a tie.
C28_Candidates ==
    LzFound =>
        \A p \in 0..(inputSize - 1) :
            p + 2 < inputSize =>
                LET ex == Examined(p, hashHead[HashAt(p)], 64)
                IN  /\ Len(ex) <= 64
                    /\ \A k \in 1..Len(ex) : ex[k] < p /\ p - ex[k] <= WINDOW_SIZE
                    /\ \A k \in 1..(Len(ex) - 1) : ex[k + 1] < ex[k]
                    /\ <<matchOffset[p + 1], matchLength[p + 1]>> = LongestFirst(p, ex)

\* The greatest element of a non-empty set of positions.
MaxPos(S) == CHOOSE m \in S : \A x \in S : x <= m

\* The head of bucket h after inserting the positions 0, 1, ... in order
\* into a table of -1: the last position inserted with that hash.
SeqHead(h) ==
    LET same == {i \in Inserted(inputSize) : HashAt(i) = h}
    IN  IF same = {} THEN -1 ELSE MaxPos(same)

\* The link of position i in that construction: the head its insertion
\* found, that is the last earlier position of the same hash, or -1.
SeqPrev(i) ==
    LET before == {j \in Inserted(inputSize) : j < i /\ HashAt(j) = HashAt(i)}
    IN  IF before = {} THEN -1 ELSE MaxPos(before)

\* C25: whatever the interleaving of the threads of buildHashTable, the
\* hashHead and hashPrev the kernel leaves equal those of the sequential
\* construction: no store of -1 by a thread of another block replaces a head
\* that thread (0,0) has inserted.
C25_BuildIsSequential ==
    LzBuilt =>
        /\ \A h \in HashSet : hashHead[h] = SeqHead(h)
        /\ \A i \in Inserted(inputSize) : hashPrev[i + 1] = SeqPrev(i)

\* ---------------------------------------------------------- specification
\* The state at the entry of lz77Compress, after initResult (line 148).
LzInit ==
    /\ codec = "lz" /\ pc = "lz_alloc"
    /\ \E inp \in LzInputs : inPat = inp.pat /\ inputSize = inp.n
    /\ inLead = 0
    /\ allocated = {}
    /\ outCap = -1 /\ outputSize = -1
    /\ hostOut = <<>> /\ hostBytes = 0
    /\ result = initResult(inputSize)
    /\ hashHead = [h \in HashSet |-> Uninit]
    /\ hashPrev = [i \in 1..inputSize |-> Uninit]
    /\ resetDone = {} /\ bi = 0
    /\ matchOffset = [i \in 1..inputSize |-> Uninit]
    /\ matchLength = [i \in 1..inputSize |-> Uninit]
    /\ findDone = {}
    /\ output = [i \in 1..inputSize |-> Uninit]
    /\ ei = 0 /\ outIdx = 0
    /\ outputPos = Uninit /\ numTokens = Uninit
    /\ E8Idle /\ AcIdle /\ TsIdle

LzNext ==
    \/ LzMalloc
    \/ LzCopyIn
    \/ LzMemset
    \/ \E h \in DOMAIN hashHead : ResetHead(h)
    \/ BuildInsert
    \/ BuildHashTableEnd
    \/ \E w \in 0..(inputSize \div WARP_SIZE) : FindMatches(w)
    \/ FindMatchesEnd
    \/ EncodeStep
    \/ EncodeTokensEnd
    \/ LzSync
    \/ LzReadPos
    \/ LzCopyOut
    \/ LzCleanup

SpecLZ == LzInit /\ [][LzNext]_vars

\* ------------------------------------------------ encodeTokens on its own
\* Match records handed to encodeTokens: the null record, and lengths and
\* offsets at the ends and inside of MIN_MATCH..MAX_MATCH and 1..WINDOW_SIZE.
TokLengths == {MIN_MATCH, MIN_MATCH + 1, 130, MAX_MATCH - 1, MAX_MATCH}
TokOffsets == {1, 2, 255, 256, 257, WINDOW_SIZE - 1, WINDOW_SIZE}
TokRecords == {<<0, 0>>} \cup (TokOffsets \X TokLengths)
TokBytes == {0, 65, 255}

\* The state at the launch encodeTokens<<<1, 1>>> on one input byte and one
\* match record <<offset, length>>.
TokInit ==
    /\ codec = "lz" /\ pc = "lz_encode"
    /\ inputSize = 1
    /\ \E b \in TokBytes : inPat = <<b>>
    /\ inLead = 0
    /\ allocated = {LzBuffers[k] : k \in 1..Len(LzBuffers)}
    /\ outCap = -1 /\ outputSize = -1
    /\ hostOut = <<>> /\ hostBytes = 0
    /\ result = initResult(inputSize)
    /\ hashHead = <<>> /\ hashPrev = <<-1>>
    /\ resetDone = {} /\ bi = 0
    /\ \E rec \in TokRecords : matchOffset = <<rec[1]>> /\ matchLength = <<rec[2]>>
    /\ findDone = {0}
    /\ output = <<Uninit>>
    /\ ei = 0 /\ outIdx = 0
    /\ outputPos = Uninit /\ numTokens = Uninit
    /\ E8Idle /\ AcIdle /\ TsIdle

TokNext == EncodeStep \/ EncodeTokensEnd

SpecTok == TokInit /\ [][TokNext]_vars

\* ================================================================ E8 coder
E8_ROOTS == 240
E8_DIM == 8
BLOCK_BYTES == 64

\* Most 64-byte blocks of an E8 input.
MaxE8Blocks == 1

\* Inputs of e8LatticeCompress: a short pattern repeated to a length near a
\* multiple of BLOCK_BYTES, or to a short length.
E8Patterns == {<<255>>, <<0, 255>>, <<200, 13, 77>>}
E8Lengths ==
    {0, 1} \cup {BLOCK_BYTES * k + d : k \in 1..MaxE8Blocks, d \in {-1, 0, 1}}
E8Inputs == {[pat |-> p, n |-> n] : p \in E8Patterns, n \in E8Lengths}

\* Line 187 rounding down instead of up.
PaddedSizeFloor(n) == (n \div BLOCK_BYTES) * BLOCK_BYTES

\* Lines 187-188.
PaddedSize(n) == ((n + BLOCK_BYTES - 1) \div BLOCK_BYTES) * BLOCK_BYTES
NumBlocks(n) == PaddedSize(n) \div BLOCK_BYTES

\* initE8Roots lines 38-43: the inner loop over j; <<remaining, pairIdx>>.
RECURSIVE PairInner(_, _, _, _)
PairInner(i, j, remaining, pairIdx) ==
    IF j < 8 /\ remaining >= 4
    THEN LET r == remaining - 4
         IN  PairInner(i, j + 1, r, IF r < 0 THEN i * 8 + j ELSE pairIdx)
    ELSE <<remaining, pairIdx>>

\* initE8Roots lines 37-44: the outer loop over i; the final pairIdx.
RECURSIVE PairOuter(_, _, _)
PairOuter(i, remaining, pairIdx) ==
    IF i < 8 /\ pairIdx = 0
    THEN LET r == PairInner(i, i + 1, remaining, pairIdx)
         IN  PairOuter(i + 1, r[1], r[2])
    ELSE pairIdx

\* Lines 34-44 for thread tid.
PairIdxOf(tid) == PairOuter(0, tid, 0)

\* Lines 62-68: signPattern, the OR of the bits (maskIdx >> b) & 1 at b.
RECURSIVE SignPattern(_, _, _)
SignPattern(maskIdx, b, acc) ==
    IF b < 8
    THEN SignPattern(maskIdx, b + 1,
                     BitOr(acc, ((maskIdx \div (2 ^ b)) % 2) * (2 ^ b)))
    ELSE acc

\* The stores of a thread with line 72 indexing the table by idx, not tid.
RootStoresByIdx(tid) ==
    IF tid < 112
    THEN LET pairIdx == PairIdxOf(tid)
             i == (pairIdx \div 8) % 8
             j == pairIdx % 8
             signBits == tid % 4
         IN  [d \in 1..E8_DIM |-> <<tid * E8_DIM + (d - 1), 0>>]
             \o << <<tid * E8_DIM + i, IF signBits % 2 = 1 THEN 2 ELSE -2>>,
                   <<tid * E8_DIM + j, IF (signBits \div 2) % 2 = 1 THEN 2 ELSE -2>> >>
    ELSE IF tid < 240
    THEN LET idx == tid - 112
             maskIdx == idx \div 2
             signPattern == SignPattern(maskIdx, 0, 0)
         IN  [d \in 1..E8_DIM |->
                <<idx * E8_DIM + (d - 1),
                  IF (signPattern \div (2 ^ (d - 1))) % 2 = 1 THEN -1 ELSE 1>>]
    ELSE <<>>

\* The stores of thread tid of initE8Roots, in program order, each
\* <<index into roots, twice the float stored>>.
RootStores(tid) ==
    IF tid < 112
    THEN LET pairIdx == PairIdxOf(tid)
             i == (pairIdx \div 8) % 8
             j == pairIdx % 8
             signBits == tid % 4
         IN  [d \in 1..E8_DIM |-> <<tid * E8_DIM + (d - 1), 0>>]
             \o << <<tid * E8_DIM + i, IF signBits % 2 = 1 THEN 2 ELSE -2>>,
                   <<tid * E8_DIM + j, IF (signBits \div 2) % 2 = 1 THEN 2 ELSE -2>> >>
    ELSE IF tid < 240
    THEN LET idx == tid - 112
             maskIdx == idx \div 2
             signPattern == SignPattern(maskIdx, 0, 0)
         IN  [d \in 1..E8_DIM |->
                <<tid * E8_DIM + (d - 1),
                  IF (signPattern \div (2 ^ (d - 1))) % 2 = 1 THEN -1 ELSE 1>>]
    ELSE <<>>

\* What a thread leaves in the entries it stores to, from its stores
\* st[k..] in program order: a later store to an index wins.
RECURSIVE StoresEffect(_, _)
StoresEffect(st, k) ==
    IF k > Len(st) THEN <<>>
    ELSE StoresEffect(st, k + 1) @@ (st[k][1] :> st[k][2])

\* The entries the threads tid..last of one warp store to.  Every index
\* stored to is tid * E8_DIM + c with c in 0..7 (lines 48, 55, 56, 72), so
\* no two threads store to one entry.
RECURSIVE WarpEffect(_, _)
WarpEffect(tid, last) ==
    IF tid > last THEN <<>>
    ELSE StoresEffect(RootStores(tid), 1) @@ WarpEffect(tid + 1, last)

\* What each of the 8 warps of the launch stores (the kernel reads nothing
\* but its thread index, so this is the same in every run).
WarpStores ==
    [w \in 0..7 |-> WarpEffect(w * WARP_SIZE, w * WARP_SIZE + WARP_SIZE - 1)]

\* initE8Roots<<<1, 256>>>, one warp of the launch (8 warps; the threads
\* 240..255 of the last one store nothing).
InitE8Roots(w) ==
    /\ codec = "e8" /\ pc = "e8_roots"
    /\ w \in (0..7) \ rootsDone
    /\ dRoots' = WarpStores[w] @@ dRoots
    /\ rootsDone' = rootsDone \cup {w}
    /\ UNCHANGED <<tsVars, hostVars, lzVars, acVars, e8Proc, dInput, dVectors, dRootIndices, dResiduals,
                   dEncoded>>

InitE8RootsEnd ==
    /\ codec = "e8" /\ pc = "e8_roots"
    /\ rootsDone = 0..7
    /\ pc' = "e8_vectors"
    /\ rootRuns' = rootRuns + 1
    /\ prevRoots' = dRoots
    /\ UNCHANGED <<tsVars, hostVars_but_pc, lzVars, acVars, dInput, dRoots, rootsDone,
                   dVectors, dRootIndices, dResiduals, dEncoded, callNo>>

\* bytesToVectors lines 92-98 for block blockId and coordinate d: the float
\* (sum / 8 - 127.5) / 127.5 is (sum - 1020) / 1020; kept times 1020.
VectorCoord(blockId, d) ==
    LET RECURSIVE Sum(_)
        Sum(b) == IF b = 8 THEN 0
                  ELSE dInput[blockId * BLOCK_BYTES + d * 8 + b + 1] + Sum(b + 1)
    IN  Sum(0) - 1020

\* bytesToVectors: every thread with blockId < numBlocks.
BytesToVectors ==
    /\ codec = "e8" /\ pc = "e8_vectors"
    /\ dVectors' = [k \in 1..(NumBlocks(inputSize) * E8_DIM) |->
                      VectorCoord((k - 1) \div E8_DIM, (k - 1) % E8_DIM)]
    /\ pc' = "e8_nearest"
    /\ UNCHANGED <<tsVars, hostVars_but_pc, lzVars, acVars, e8Proc, dInput, dRoots, rootsDone,
                   dRootIndices, dResiduals, dEncoded>>

\* findNearestRoot lines 132-136: the squared distance of vector vecId to
\* root r, times 1020^2 (a root coordinate t/2 is 510 t / 1020).
Dist(vecId, r) ==
    LET RECURSIVE Acc(_)
        Acc(d) == IF d = E8_DIM THEN 0
                  ELSE LET diff == dVectors[vecId * E8_DIM + d + 1]
                                   - 510 * dRoots[r * E8_DIM + d]
                       IN  diff * diff + Acc(d + 1)
    IN  Acc(0)

\* The loop body with `<=` for `<` at line 138: the last of equal distances wins.
NearestStepLast(vecId, r, best) ==
    LET dist == Dist(vecId, r)
    IN  IF best[1] = -1 \/ dist <= best[1] THEN <<dist, r>> ELSE best

\* findNearestRoot lines 131-142: one iteration of the loop over the roots,
\* on the pair best = <<minDist, bestRoot>>.
NearestStep(vecId, r, best) ==
    LET dist == Dist(vecId, r)
    IN  IF best[1] = -1 \/ dist < best[1] THEN <<dist, r>> ELSE best

\* The iterations lo..hi-1 of that loop, in order (split in halves, the
\* first half evaluated before the second, to keep the evaluation shallow).
RECURSIVE NearestScan(_, _, _, _)
NearestScan(vecId, lo, hi, best) ==
    IF hi <= lo THEN best
    ELSE IF hi = lo + 1 THEN NearestStep(vecId, lo, best)
    ELSE LET mid == (lo + hi) \div 2
             left == NearestScan(vecId, lo, mid, best)
         IN  IF left[2] >= 0 THEN NearestScan(vecId, mid, hi, left) ELSE left

\* Lines 128-142: minDist starts at 1e10f, above every distance of a vector
\* in [-1, 1]^8 to a root (at most 8 * 2^2 = 32); -1 stands for it.
NearestRoot(vecId) == NearestScan(vecId, 0, E8_ROOTS, <<-1, 0>>)[2]

\* findNearestRoot: every thread with vecId < numVectors.
FindNearestRoot ==
    /\ codec = "e8" /\ pc = "e8_nearest"
    /\ dRootIndices' = [v \in 1..NumBlocks(inputSize) |-> NearestRoot(v - 1)]
    /\ dResiduals' = [k \in 1..(NumBlocks(inputSize) * E8_DIM) |->
                        dVectors[k]
                        - 510 * dRoots[NearestRoot((k - 1) \div E8_DIM) * E8_DIM
                                       + ((k - 1) % E8_DIM)]]
    /\ pc' = "e8_residuals"
    /\ UNCHANGED <<tsVars, hostVars_but_pc, lzVars, acVars, e8Proc, dInput, dRoots, rootsDone, dVectors,
                   dEncoded>>

\* C's conversion of a quotient to int: truncation toward zero.
TruncDiv(a, b) == IF a >= 0 THEN a \div b ELSE -((-a) \div b)

\* The conversion without the clamp of line 168: (unsigned short) keeps the
\* 16 low bits.
QuantizeUnclamped(r1020) == TruncDiv((r1020 + 1020) * 65535, 2040) % 65536

\* encodeResiduals lines 165-169 for a residual r (times 1020):
\* (int)((r + 1) * 32767.5) is the integer part of (r1020 + 1020) * 65535 / 2040.
Quantize(r1020) ==
    Max(0, Min(65535, TruncDiv((r1020 + 1020) * 65535, 2040)))

\* encodeResiduals: every thread with vecId < numVectors.
EncodeResiduals ==
    /\ codec = "e8" /\ pc = "e8_residuals"
    /\ dEncoded' = [k \in 1..(NumBlocks(inputSize) * E8_DIM) |-> Quantize(dResiduals[k])]
    /\ pc' = "e8_sync"
    /\ UNCHANGED <<tsVars, hostVars_but_pc, lzVars, acVars, e8Proc, dInput, dRoots, rootsDone, dVectors,
                   dRootIndices, dResiduals>>

\* e8LatticeCompress lines 198-203, in order.
E8Buffers == <<"d_input", "d_roots", "d_vectors", "d_rootIndices",
               "d_residuals", "d_encodedResiduals">>

E8Malloc ==
    /\ codec = "e8" /\ pc = "e8_alloc"
    /\ \E ok \in BOOLEAN :
        LET k == Cardinality(allocated) + 1
        IN  /\ allocated' = IF ok THEN allocated \cup {E8Buffers[k]} ELSE allocated
            /\ CudaCheck(ok, IF k = Len(E8Buffers) THEN "e8_memset" ELSE "e8_alloc")
    /\ UNCHANGED <<tsVars, codec, inPat, inLead, inputSize, outCap, outputSize, hostOut,
                   hostBytes, result, lzVars, acVars, e8Vars>>

\* Line 206: cudaMemset(d_input, 0, paddedSize).
E8Memset ==
    /\ codec = "e8" /\ pc = "e8_memset"
    /\ \E ok \in BOOLEAN :
        /\ dInput' = IF ok THEN [i \in 1..PaddedSize(inputSize) |-> 0] ELSE dInput
        /\ CudaCheck(ok, "e8_copyin")
    /\ UNCHANGED <<tsVars, hostVars_but_pc, lzVars, acVars, e8Proc, dRoots, rootsDone, dVectors,
                   dRootIndices, dResiduals, dEncoded>>

\* Line 207: the first inputSize bytes of d_input are the input.
E8CopyIn ==
    /\ codec = "e8" /\ pc = "e8_copyin"
    /\ \E ok \in BOOLEAN :
        /\ dInput' = IF ok
                     THEN [i \in 1..PaddedSize(inputSize) |->
                            IF i <= inputSize THEN In(i - 1) ELSE dInput[i]]
                     ELSE dInput
        /\ CudaCheck(ok, "e8_roots")
    /\ UNCHANGED <<tsVars, hostVars_but_pc, lzVars, acVars, e8Proc, dRoots, rootsDone, dVectors,
                   dRootIndices, dResiduals, dEncoded>>

\* Lines 226-227.
E8Sync ==
    /\ codec = "e8" /\ pc = "e8_sync"
    /\ \E ok \in BOOLEAN, t \in Times :
        /\ CudaCheck(ok, "e8_copyout")
        /\ result' = IF ok THEN [result EXCEPT !.timeMs = t] ELSE result
    /\ UNCHANGED <<tsVars, codec, inPat, inLead, inputSize, allocated, outCap, outputSize,
                   hostOut, hostBytes, lzVars, acVars, e8Vars>>

\* Line 230: sizeof(size_t) + numBlocks + numBlocks * E8_DIM * sizeof(unsigned short).
E8OutputBytes(n) == 8 + NumBlocks(n) + NumBlocks(n) * E8_DIM * 2

\* Line 232: the test that lets the copies to h_output happen.
E8Fits(outputBytes, cap) == outputBytes <= cap

\* The object representation of a size_t or an unsigned short on the
\* little-endian host: `len` bytes of n, the lowest first.
RECURSIVE LEBytes(_, _)
LEBytes(n, len) ==
    IF len = 0 THEN <<>> ELSE <<n % 256>> \o LEBytes(n \div 256, len - 1)

\* The bytes of an array of unsigned short.
WordBytes(words) ==
    [j \in 1..(2 * Len(words)) |-> LEBytes(words[(j + 1) \div 2], 2)[2 - (j % 2)]]

\* memcpy / cudaMemcpy of `bytes` to buf + off; a byte of buf never written
\* holds what the caller left there.
WriteAt(buf, off, bytes) ==
    [i \in 1..Max(Len(buf), off + Len(bytes)) |->
        IF i > off /\ i <= off + Len(bytes) THEN bytes[i - off]
        ELSE IF i <= Len(buf) THEN buf[i] ELSE Uninit]

\* The destination of lines 240-243 placed one byte early.
ResidualsOffsetEarly(numBlocks) == 8 + numBlocks - 1

\* Line 240: h_output + sizeof(size_t) + numBlocks.
ResidualsOffset(numBlocks) == 8 + numBlocks

\* Lines 230-248: the size test, the three copies to h_output (the two
\* device copies are checked: `failAt` is the copy that fails, 0 for none),
\* the reported sizes.  *outputSize on entry is first read here.
E8CopyOut ==
    /\ codec = "e8" /\ pc = "e8_copyout"
    /\ LET outputBytes == E8OutputBytes(inputSize)
           B == NumBlocks(inputSize)
           header == WriteAt(hostOut, 0, LEBytes(inputSize, 8))
           indices == WriteAt(header, 8, dRootIndices)
       IN  \E cap \in Capacities(outputBytes), failAt \in 0..2 :
            /\ outCap' = cap
            /\ IF E8Fits(outputBytes, cap)
               THEN /\ hostOut' =
                          CASE failAt = 1 -> header
                            [] failAt = 2 -> indices
                            [] OTHER -> WriteAt(indices, ResidualsOffset(B),
                                                WordBytes(dEncoded))
                    /\ hostBytes' =
                          CASE failAt = 1 -> 8
                            [] failAt = 2 -> 8 + B
                            [] OTHER -> outputBytes
                    /\ CudaCheck(failAt = 0, "e8_cleanup")
               ELSE /\ failAt = 0
                    /\ pc' = "e8_cleanup"
                    /\ UNCHANGED <<hostOut, hostBytes>>
            /\ outputSize' = IF pc' = "exited" THEN outputSize ELSE outputBytes
            /\ result' = IF pc' = "exited" THEN result
                         ELSE finalizeResult([result EXCEPT !.compressedSize = outputBytes])
    /\ UNCHANGED <<tsVars, codec, inPat, inLead, inputSize, allocated, lzVars, acVars, e8Vars>>

\* Lines 251-259.
E8Cleanup ==
    /\ codec = "e8" /\ pc = "e8_cleanup"
    /\ allocated' = allocated \ {E8Buffers[k] : k \in 1..Len(E8Buffers)}
    /\ pc' = "returned"
    /\ UNCHANGED <<tsVars, codec, inPat, inLead, inputSize, outCap, outputSize, hostOut,
                   hostBytes, result, lzVars, acVars, e8Vars>>

\* Row r of the table initE8Roots wrote, each coordinate twice the float.
RootRow(r) == [d \in 0..(E8_DIM - 1) |-> dRoots[r * E8_DIM + d]]

\* Twice the 112 type A roots: +1 or -1 at two different positions, 0 elsewhere.
TypeARoots ==
    {[d \in 0..(E8_DIM - 1) |-> IF d = i THEN si ELSE IF d = j THEN sj ELSE 0] :
        i \in 0..(E8_DIM - 1), j \in 0..(E8_DIM - 1), si \in {-2, 2}, sj \in {-2, 2}}
    \ {[d \in 0..(E8_DIM - 1) |-> IF d = i THEN si ELSE 0] :
        i \in 0..(E8_DIM - 1), si \in {-2, 2}}

\* Twice the 128 type B roots: every coordinate +1/2 or -1/2, an even number
\* of them -1/2.
TypeBRoots ==
    {v \in [0..(E8_DIM - 1) -> {-1, 1}] :
        Cardinality({d \in 0..(E8_DIM - 1) : v[d] = -1}) % 2 = 0}

\* initE8Roots has run to its end.
E8RootsWritten == codec = "e8" /\ rootsDone = 0..7

\* C5: the table written by initE8Roots holds 240 pairwise distinct vectors,
\* entries 0..111 being exactly the 112 type A roots and entries 112..239
\* exactly the 128 type B roots.
C5_RootTable ==
    E8RootsWritten =>
        /\ Cardinality({RootRow(r) : r \in 0..(E8_ROOTS - 1)}) = E8_ROOTS
        /\ {RootRow(r) : r \in 0..111} = TypeARoots
        /\ {RootRow(r) : r \in 112..(E8_ROOTS - 1)} = TypeBRoots

\* Every store of every thread of the launch goes to an entry of the
\* thread's own row of the table.
OwnRowsOnly ==
    \A tid \in 0..255 :
        \A k \in DOMAIN RootStores(tid) :
            RootStores(tid)[k][1] \in (tid * E8_DIM)..(tid * E8_DIM + E8_DIM - 1)

\* The entries of the table the threads of the launch store to.
StoredEntries ==
    UNION {{RootStores(tid)[k][1] : k \in DOMAIN RootStores(tid)} : tid \in 0..255}

\* C17: a run of initE8Roots, whatever the order its warps ran in, leaves
\* the table the run before it left, entry by entry; every entry of the 240
\* rows is stored to, and no thread stores to an entry of another thread's
\* row.
C17_RootsDeterministic ==
    /\ OwnRowsOnly
    /\ StoredEntries = 0..(E8_ROOTS * E8_DIM - 1)
    /\ (E8RootsWritten /\ pc = "e8_roots" /\ rootRuns >= 1) =>
            \A i \in 0..(E8_ROOTS - 1), d \in 0..(E8_DIM - 1) :
                dRoots[i * E8_DIM + d] = prevRoots[i * E8_DIM + d]

\* A second run of initE8Roots has stored its last entry.
C17_Witness ==
    E8RootsWritten /\ pc = "e8_roots" /\ rootRuns = 1 /\ callNo = 2

\* findNearestRoot has run to its end.
E8Nearest ==
    codec = "e8" /\ pc \in {"e8_residuals", "e8_sync", "e8_copyout", "e8_cleanup"}

\* Block v of the input is 64 bytes 0xFF.
AllOnesBlock(v) ==
    /\ (v + 1) * BLOCK_BYTES <= inputSize
    /\ \A i \in (v * BLOCK_BYTES)..((v + 1) * BLOCK_BYTES - 1) : In(i) = 255

\* C14: the index r stored for a block vector v is at minimal squared
\* distance among the 240 table rows, every row before it is strictly
\* farther, and the residual stored is v - root[r] coordinate by coordinate;
\* a block of 64 bytes 0xFF gives the vector (1,...,1) and always index 112.
C14_NearestRoot ==
    E8Nearest =>
        \A v \in 0..(NumBlocks(inputSize) - 1) :
            LET r == dRootIndices[v + 1]
            IN  /\ r \in 0..(E8_ROOTS - 1)
                /\ \A q \in 0..(E8_ROOTS - 1) :
                    /\ Dist(v, r) <= Dist(v, q)
                    /\ q < r => Dist(v, q) > Dist(v, r)
                /\ \A d \in 0..(E8_DIM - 1) :
                    dResiduals[v * E8_DIM + d + 1] =
                        dVectors[v * E8_DIM + d + 1] - 510 * dRoots[r * E8_DIM + d]
                /\ AllOnesBlock(v) =>
                    /\ \A d \in 0..(E8_DIM - 1) : dVectors[v * E8_DIM + d + 1] = 1020
                    /\ r = 112

\* A block of 64 bytes 0xFF has been given its root, which a later row of
\* the table equals in distance.
C14_Witness ==
    /\ E8Nearest /\ NumBlocks(inputSize) >= 1 /\ AllOnesBlock(0)
    /\ \E q \in (dRootIndices[1] + 1)..(E8_ROOTS - 1) : Dist(0, q) = Dist(0, dRootIndices[1])

\* The least b with 64 b >= n.
CeilBlocks(n) == CHOOSE b \in 0..n : b * 64 >= n /\ (b = 0 \/ (b - 1) * 64 < n)

\* The number whose little-endian bytes are bytes[off + 1 .. off + len].
RECURSIVE LEValue(_, _, _)
LEValue(bytes, off, len) ==
    IF len = 0 THEN 0 ELSE bytes[off + 1] + 256 * LEValue(bytes, off + 1, len - 1)

\* Byte i of the input followed by zeros.
PaddedByte(i) == IF i < inputSize THEN In(i) ELSE 0

\* The sum of the bytes first .. first + len - 1 of the input followed by zeros.
RECURSIVE PaddedSum(_, _)
PaddedSum(first, len) ==
    IF len = 0 THEN 0 ELSE PaddedByte(first) + PaddedSum(first + 1, len - 1)

\* The copy to d_input has been made and the kernels may read it.
E8InputReady ==
    codec = "e8" /\ pc \in {"e8_roots", "e8_vectors", "e8_nearest", "e8_residuals",
                             "e8_sync", "e8_copyout", "e8_cleanup", "returned"}

\* bytesToVectors has run to its end.
E8Vectors ==
    codec = "e8" /\ pc \in {"e8_nearest", "e8_residuals", "e8_sync", "e8_copyout",
                             "e8_cleanup", "returned"}

\* C15: for an input of n bytes e8LatticeCompress processes ceil(n / 64)
\* blocks; the bytes of d_input at the indices n and above are zero when
\* bytesToVectors reads them, and a coordinate is computed from its 8 input
\* bytes with zero for those at n and above; result.originalSize and the
\* 8-byte header of the output are n.
C15_Padding ==
    codec = "e8" =>
        /\ result.originalSize = inputSize
        /\ E8InputReady =>
            /\ Len(dInput) = CeilBlocks(inputSize) * 64
            /\ \A i \in 0..(Len(dInput) - 1) :
                    dInput[i + 1] = PaddedByte(i)
        /\ E8Vectors =>
            /\ Len(dVectors) = CeilBlocks(inputSize) * 8
            /\ \A v \in 0..(CeilBlocks(inputSize) - 1), d \in 0..7 :
                    dVectors[v * 8 + d + 1] = PaddedSum(v * 64 + d * 8, 8) - 1020
        /\ (E8Vectors /\ pc # "e8_nearest") => Len(dRootIndices) = CeilBlocks(inputSize)
        /\ Len(hostOut) >= 8 => LEValue(hostOut, 0, 8) = inputSize

\* A call on 65 bytes (two blocks, 63 bytes of padding) has returned with
\* its output written.
C15_Witness ==
    /\ codec = "e8" /\ pc = "returned"
    /\ inputSize = BLOCK_BYTES + 1
    /\ hostBytes = E8OutputBytes(inputSize)
    /\ Len(hostOut) = hostBytes

\* e8LatticeCompress has passed its copies to h_output, none of which failed,
\* with a destination of at least the size required.
E8OutputWritten ==
    /\ codec = "e8" /\ pc \in {"e8_cleanup", "returned"}
    /\ outCap >= 8 + CeilBlocks(inputSize) + 16 * CeilBlocks(inputSize)

\* C16: with a destination large enough the output for B = ceil(n / 64)
\* blocks is 8 + B + 16 B bytes: bytes 0..7 are n, byte 8 + k is the root
\* index of block k, and the two bytes at 8 + B + 2 (8 k + d) are residual
\* word d of block k; so no region was written over by another.
C16_OutputLayout ==
    E8OutputWritten =>
        LET B == CeilBlocks(inputSize)
        IN  /\ Len(hostOut) = 8 + B + 16 * B
            /\ hostBytes = 8 + B + 16 * B
            /\ outputSize = 8 + B + 16 * B
            /\ result.compressedSize = 8 + B + 16 * B
            /\ LEValue(hostOut, 0, 8) = inputSize
            /\ \A k \in 0..(B - 1) :
                /\ hostOut[8 + k + 1] = dRootIndices[k + 1]
                /\ \A d \in 0..7 :
                    LEValue(hostOut, 8 + B + 2 * (8 * k + d), 2) = dEncoded[8 * k + d + 1]

\* An output of two blocks has been written whose last index byte and first
\* residual byte differ.
C16_Witness ==
    /\ E8OutputWritten
    /\ CeilBlocks(inputSize) = 2
    /\ hostOut[8 + 2] # hostOut[8 + 2 + 1]

\* encodeResiduals has run to its end.
E8Encoded == codec = "e8" /\ pc \in {"e8_sync", "e8_copyout", "e8_cleanup"}

\* C13: every word written by encodeResiduals lies in [0, 65535]; a residual
\* r <= -1 gives 0, r >= 1 gives 65535, and in between the word q is the
\* integer part of (r + 1) * 32767.5, that is q <= (r + 1) * 32767.5 < q + 1.
C13_ResidualWords ==
    E8Encoded =>
        \A k \in DOMAIN dEncoded :
            LET r == dResiduals[k]
                q == dEncoded[k]
            IN  /\ q \in 0..65535
                /\ r <= -1020 => q = 0
                /\ r >= 1020 => q = 65535
                /\ (r > -1020 /\ r < 1020) =>
                        /\ q * 2040 <= (r + 1020) * 65535
                        /\ (r + 1020) * 65535 < (q + 1) * 2040

\* A block with a residual below -1, clamped to 0, and one inside (-1, 1).
C13_Witness ==
    /\ E8Encoded
    /\ \E k \in DOMAIN dEncoded : dResiduals[k] < -1020 /\ dEncoded[k] = 0
    /\ \E k \in DOMAIN dEncoded : dResiduals[k] > -1020 /\ dEncoded[k] > 0

\* Most e8LatticeCompress calls of one process.
MaxCalls == 2

\* The process calls e8LatticeCompress again after a call has returned: the
\* state at the entry of the new call, after line 182.  Its buffers are new
\* allocations; nothing of the previous call is passed on (d_roots is a
\* local of the call, and d_e8Roots of line 23 is used nowhere).
E8NextCall ==
    /\ codec = "e8" /\ pc = "returned"
    /\ callNo < MaxCalls
    /\ callNo' = callNo + 1
    /\ pc' = "e8_alloc"
    /\ \E inp \in E8Inputs : inPat' = inp.pat /\ inputSize' = inp.n
    /\ inLead' = 0
    /\ outCap' = -1 /\ outputSize' = -1
    /\ hostOut' = <<>> /\ hostBytes' = 0
    /\ result' = initResult(inputSize')
    /\ dInput' = [i \in 1..PaddedSize(inputSize') |-> Uninit]
    /\ dRoots' = [i \in 0..(E8_ROOTS * E8_DIM - 1) |-> Uninit]
    /\ rootsDone' = {}
    /\ dVectors' = [k \in 1..(NumBlocks(inputSize') * E8_DIM) |-> Uninit]
    /\ dRootIndices' = [v \in 1..NumBlocks(inputSize') |-> Uninit]
    /\ dResiduals' = [k \in 1..(NumBlocks(inputSize') * E8_DIM) |-> Uninit]
    /\ dEncoded' = [k \in 1..(NumBlocks(inputSize') * E8_DIM) |-> Uninit]
    /\ UNCHANGED <<tsVars, codec, allocated, rootRuns, prevRoots, lzVars, acVars>>

\* C12: across the e8LatticeCompress calls of one process the root table is
\* generated once, on the first call: no second run of initE8Roots
\* completes, and a second or later call does not run it.
C12_RootsOnce ==
    /\ rootRuns <= 1
    /\ callNo >= 2 => pc # "e8_roots"

\* The state at the entry of e8LatticeCompress, after line 182.
E8Init ==
    /\ codec = "e8" /\ pc = "e8_alloc"
    /\ \E inp \in E8Inputs : inPat = inp.pat /\ inputSize = inp.n
    /\ inLead = 0
    /\ allocated = {}
    /\ outCap = -1 /\ outputSize = -1
    /\ hostOut = <<>> /\ hostBytes = 0
    /\ result = initResult(inputSize)
    /\ LzIdle /\ AcIdle /\ TsIdle
    /\ dInput = [i \in 1..PaddedSize(inputSize) |-> Uninit]
    /\ dRoots = [i \in 0..(E8_ROOTS * E8_DIM - 1) |-> Uninit]
    /\ rootsDone = {}
    /\ dVectors = [k \in 1..(NumBlocks(inputSize) * E8_DIM) |-> Uninit]
    /\ dRootIndices = [v \in 1..NumBlocks(inputSize) |-> Uninit]
    /\ dResiduals = [k \in 1..(NumBlocks(inputSize) * E8_DIM) |-> Uninit]
    /\ dEncoded = [k \in 1..(NumBlocks(inputSize) * E8_DIM) |-> Uninit]
    /\ callNo = 1 /\ rootRuns = 0 /\ prevRoots = <<>>

E8Next ==
    \/ E8Malloc
    \/ E8Memset
    \/ E8CopyIn
    \/ \E w \in 0..7 : InitE8Roots(w)
    \/ InitE8RootsEnd
    \/ BytesToVectors
    \/ FindNearestRoot
    \/ EncodeResiduals
    \/ E8Sync
    \/ E8CopyOut
    \/ E8Cleanup
    \/ E8NextCall

SpecE8 == E8Init /\ [][E8Next]_vars

\* ======================================================= arithmetic coder
ALPHABET_SIZE == 256
\* arithmeticCompress line 438.
CHUNK_SIZE == 4096
\* Line 440: chunkSize / 4 + 64 words of d_output per chunk.
MaxOutputPerChunk == CHUNK_SIZE \div 4 + 64

\* Most chunks of an arithmetic coder input.
MaxChunks == 2
\* countFrequencies blocks whose merges are interleaved in every order; the
\* merges of the later blocks are taken in (block, symbol) order.
MaxFreeBlocks == 2

\* The pattern of all 256 byte values in increasing order.
AllBytes == [i \in 1..ALPHABET_SIZE |-> i - 1]

\* Inputs of arithmeticCompress: the empty input, one byte, one byte more
\* than a countFrequencies block, whole chunks of one or two symbols, and
\* an input of MaxChunks whole chunks whose last chunk runs through all 256
\* byte values and whose other chunks are zero (the symbols of the last
\* chunk are rare in the input as a whole).
AcInputs ==
    {[pat |-> <<7>>, lead |-> 0, n |-> 0], [pat |-> <<7>>, lead |-> 0, n |-> 1],
     [pat |-> <<0, 1>>, lead |-> 0, n |-> BLOCK_SIZE + 1]}
    \cup {[pat |-> p, lead |-> 0, n |-> CHUNK_SIZE * k] :
             p \in {<<0>>, <<0, 1>>}, k \in 1..MaxChunks}
    \cup {[pat |-> AllBytes, lead |-> (MaxChunks - 1) * CHUNK_SIZE,
           n |-> MaxChunks * CHUNK_SIZE]}

\* What a read of d_input past its inputSize bytes can return.
GarbageBytes == {0, 7, 255}

\* Line 439 counting the chunk a whole multiple of chunkSize would start.
NumChunksPlusOne(n) == n \div CHUNK_SIZE + 1

\* Line 439.
NumChunks(n) == (n + CHUNK_SIZE - 1) \div CHUNK_SIZE
\* Line 452.
FreqBlocks(n) == (n + BLOCK_SIZE - 1) \div BLOCK_SIZE

\* ------------------------------------------------------- countFrequencies
\* Lines 295-298: the positions the threads of block b count.  The stride
\* blockDim.x * gridDim.x is at least size, so a thread counts position idx
\* when idx < size and nothing else.
BlockPositions(b) ==
    {i \in (b * BLOCK_SIZE)..(b * BLOCK_SIZE + BLOCK_SIZE - 1) : i < inputSize}

\* Lines 289-301: localFreq[s] of block b at the second barrier, every
\* atomicAdd of line 299 having added 1.
LocalFreq(b, s) == Cardinality({i \in BlockPositions(b) : In(i) = s})

\* The symbols s of block b with localFreq[s] > 0 (line 305).
BlockSymbols(b) == {In(i) : i \in BlockPositions(b)}

\* The merges of the launch: block b, thread s, line 306.
MergePairs ==
    UNION {{<<b, s>> : s \in BlockSymbols(b)} : b \in 0..(FreqBlocks(inputSize) - 1)}

\* The groups of threads of block b whose merges are taken as one step:
\* single threads in the first MaxFreeBlocks blocks, the whole block later.
MergeSteps(b) ==
    IF b < MaxFreeBlocks THEN {{s} : s \in BlockSymbols(b)} ELSE {BlockSymbols(b)}

\* An add that is not atomic and loses the value it found.
AtomicAddLost(old, v) == v

\* atomicAdd(address, v): the word becomes its value plus v in one step.
AtomicAdd(old, v) == old + v

\* The merges (line 306) of a group T of threads of a block b.  The blocks
\* from MaxFreeBlocks on take theirs in block order.
CountFrequencies ==
    /\ codec = "ac" /\ pc = "ac_count"
    /\ \E b \in 0..(FreqBlocks(inputSize) - 1) : \E T \in MergeSteps(b) :
        /\ \A s \in T : <<b, s>> \notin merged
        /\ b > MaxFreeBlocks => <<b - 1, In((b - 1) * BLOCK_SIZE)>> \in merged
        /\ dFreq' = [s \in 0..(ALPHABET_SIZE - 1) |->
                        IF s \in T THEN AtomicAdd(dFreq[s], LocalFreq(b, s))
                        ELSE dFreq[s]]
        /\ merged' = merged \cup {<<b, s>> : s \in T}
    /\ UNCHANGED <<tsVars, hostVars, lzVars, e8Vars, temp, scanVal, cdfPhase, cdfWarps,
                   dCdf, dOutput, dOutputLengths, encDone, hOutputLengths>>

\* The kernel has finished; buildCDF, next in the stream, starts.
CountFrequenciesEnd ==
    /\ codec = "ac" /\ pc = "ac_count"
    /\ merged = MergePairs
    /\ pc' = "ac_cdf"
    /\ UNCHANGED <<tsVars, hostVars_but_pc, lzVars, e8Vars, acVars>>

\* --------------------------------------------------------------- buildCDF
\* The phases of buildCDF<<<1, 256>>> between its barriers: 0 is the load
\* (lines 324-326); 2k+1 and 2k+2 are the read (lines 331-334) and the add
\* (lines 336-338) of the iteration with offset 2^k, k in 0..7; 17 is the
\* store (lines 343-345).
CdfStore == 17
CdfOffset(phase) == 2 ^ ((phase - 1) \div 2)

\* ScanRead reading the thread's own entry instead of the one `offset` below.
ScanReadOwn(t, tid, offset) == IF tid >= offset THEN t[tid] ELSE 0

\* Lines 331-334.
ScanRead(t, tid, offset) == IF tid >= offset THEN t[tid - offset] ELSE 0
\* Lines 336-338.
ScanAdd(t, v, tid, offset) == IF tid >= offset THEN t[tid] + v[tid] ELSE t[tid]
\* Line 344.
ExclusiveAt(t, tid) == IF tid = 0 THEN 0 ELSE t[tid - 1]

\* Thread tid of the block lies in warp w.
InWarp(tid, w) == tid \div WARP_SIZE = w

\* Warp w runs the current phase; the last warp to do so completes the
\* barrier (or the kernel, after the store).
BuildCDF(w) ==
    /\ codec = "ac" /\ pc = "ac_cdf"
    /\ w \in (0..7) \ cdfWarps
    /\ IF cdfPhase = 0
       THEN /\ temp' = [tid \in 0..(ALPHABET_SIZE - 1) |->
                          IF InWarp(tid, w) THEN dFreq[tid] ELSE temp[tid]]
            /\ UNCHANGED <<scanVal, dCdf>>
       ELSE IF cdfPhase = CdfStore
       THEN /\ dCdf' = [tid \in 0..(ALPHABET_SIZE - 1) |->
                          IF InWarp(tid, w) THEN ExclusiveAt(temp, tid) ELSE dCdf[tid]]
            /\ UNCHANGED <<temp, scanVal>>
       ELSE IF cdfPhase % 2 = 1
       THEN /\ scanVal' = [tid \in 0..(ALPHABET_SIZE - 1) |->
                             IF InWarp(tid, w)
                             THEN ScanRead(temp, tid, CdfOffset(cdfPhase))
                             ELSE scanVal[tid]]
            /\ UNCHANGED <<temp, dCdf>>
       ELSE /\ temp' = [tid \in 0..(ALPHABET_SIZE - 1) |->
                          IF InWarp(tid, w)
                          THEN ScanAdd(temp, scanVal, tid, CdfOffset(cdfPhase))
                          ELSE temp[tid]]
            /\ UNCHANGED <<scanVal, dCdf>>
    /\ IF cdfWarps \cup {w} = 0..7
       THEN /\ cdfWarps' = {}
            /\ cdfPhase' = cdfPhase + 1
            /\ pc' = IF cdfPhase = CdfStore THEN "ac_encode" ELSE pc
       ELSE /\ cdfWarps' = cdfWarps \cup {w}
            /\ UNCHANGED <<cdfPhase, pc>>
    /\ UNCHANGED <<tsVars, hostVars_but_pc, lzVars, e8Vars, dFreq, merged, dOutput,
                   dOutputLengths, encDone, hOutputLengths>>

\* ----------------------------------------------------------- encodeBlocks
\* `low` (its 32 low bits: bits 32 and up of the 64-bit variable are never
\* read) and `range` are kept as <<high 16 bits, low 16 bits>>.
W16 == 65536

\* (x * s) / t of lines 384-385 for x = <<hi, lo>> below 2^32.
MulDiv(x, s, t) ==
    LET A == x[1] * s
        B == x[2] * s
        q2 == ((A % t) * W16 + B) \div t
    IN  <<(A \div t) + (q2 \div W16), q2 % W16>>

\* x + y on the 32 low bits.
Add32(x, y) ==
    LET l == x[2] + y[2]
    IN  <<(x[1] + y[1] + (l \div W16)) % W16, l % W16>>

\* x << 8 on the 32 low bits (lines 399-400).
Shl8(x) == <<(x[1] % 256) * 256 + (x[2] \div 256), (x[2] % 256) * 256>>

\* Thread 0's locals at the start of a chunk, lines 370-375: `word` is the
\* bytes shifted into outputWord so far (bitsInWord / 8 of them), `out` the
\* words stored, most significant byte first; `hung` says that the loop of
\* line 388 was entered with range = 0, which it never leaves.
EncodeStart ==
    [low |-> <<0, 0>>, range |-> <<W16 - 1, W16 - 1>>, word |-> <<>>,
     out |-> <<>>, hung |-> FALSE]

\* Lines 390-400: one iteration of the renormalization loop.
EmitByte(e) ==
    LET w == Append(e.word, e.low[1] \div 256)
    IN  [e EXCEPT !.word = IF Len(w) = 4 THEN <<>> ELSE w,
                  !.out = IF Len(w) = 4 THEN Append(@, w) ELSE @,
                  !.low = Shl8(@),
                  !.range = Shl8(@)]

\* Lines 388-401: range < 2^24 is range's high half below 2^8.
RECURSIVE Renormalize(_)
Renormalize(e) ==
    IF e.range[1] >= 256 THEN e
    ELSE IF e.range = <<0, 0>> THEN [e EXCEPT !.hung = TRUE]
    ELSE Renormalize(EmitByte(e))

\* Lines 378-401 for one symbol.
EncodeSymbol(e, symbol) ==
    LET total == inputSize
        symLow == dCdf[symbol]
        symHigh == IF symbol < 255 THEN dCdf[symbol + 1] ELSE total
        symRange == symHigh - symLow
    IN  Renormalize([e EXCEPT !.low = Add32(@, MulDiv(e.range, symLow, total)),
                              !.range = MulDiv(@, symRange, total)])

\* Line 378: input[i]; past the inputSize bytes of d_input the read returns
\* whatever lies there, g.
InputAt(i, g) == IF i < inputSize THEN In(i) ELSE g

\* Lines 377-402 for i in lo..hi-1, in order (split in halves, the first
\* half evaluated before the second, to keep the evaluation shallow).
RECURSIVE EncodeRange(_, _, _, _)
EncodeRange(lo, hi, g, e) ==
    IF hi <= lo THEN e
    ELSE IF hi = lo + 1 THEN EncodeSymbol(e, InputAt(lo, g))
    ELSE LET mid == (lo + hi) \div 2
             left == EncodeRange(lo, mid, g, e)
         IN  IF left.hung THEN left ELSE EncodeRange(mid, hi, g, left)

\* Lines 365-366.
ChunkStart(blockId) == blockId * CHUNK_SIZE
ChunkEnd(blockId) ==
    Min(ChunkStart(blockId) + CHUNK_SIZE, NumChunks(inputSize) * CHUNK_SIZE)

\* Lines 405-407: the words of the chunk after the flush, outputWord
\* shifted left by 32 - bitsInWord.
Flush(e) ==
    IF Len(e.word) > 0
    THEN Append(e.out, [k \in 1..4 |-> IF k <= Len(e.word) THEN e.word[k] ELSE 0])
    ELSE e.out

\* Line 442: the words of d_output.
DOutputWords == NumChunks(inputSize) * MaxOutputPerChunk

\* Block blockId of encodeBlocks<<<numChunks, 32>>>: its thread 0 encodes
\* the chunk and stores its words from blockId * (chunkSize / 4 + 64) on.
\* With range = 0 the loop of line 388 stores words without end: the block
\* never finishes, or faults once it stores outside the device buffers.
\* A store of line 394 or 406 at a word index past the end of d_output
\* either faults, which the CUDA_CHECK of line 465 turns into exit, or lands
\* in memory that is not d_output and goes unnoticed.
EncodeBlocks(blockId) ==
    /\ codec = "ac" /\ pc = "ac_encode"
    /\ blockId \in (0..(NumChunks(inputSize) - 1)) \ encDone
    /\ \E g \in IF ChunkEnd(blockId) > inputSize THEN GarbageBytes ELSE {0} :
        \E e \in {EncodeRange(ChunkStart(blockId), ChunkEnd(blockId), g, EncodeStart)} :
        \E words \in {Flush(e)} :
        LET base == blockId * MaxOutputPerChunk
            inside == {k \in base..(base + Len(words) - 1) : k < DOutputWords}
        IN  IF e.hung
            THEN /\ pc' \in {"hung", "exited"}
                 /\ UNCHANGED <<dOutput, dOutputLengths, encDone>>
            ELSE \E fault \in IF base + Len(words) > DOutputWords THEN BOOLEAN ELSE {FALSE} :
                 IF fault
                 THEN /\ pc' = "exited"
                      /\ UNCHANGED <<dOutput, dOutputLengths, encDone>>
                 ELSE /\ dOutput' = [k \in inside |-> words[k - base + 1]] @@ dOutput
                      /\ dOutputLengths' =
                             [dOutputLengths EXCEPT ![blockId + 1] = Len(words) * 4]
                      /\ encDone' = encDone \cup {blockId}
                      /\ UNCHANGED pc
    /\ UNCHANGED <<tsVars, hostVars_but_pc, lzVars, e8Vars, dFreq, merged, temp, scanVal,
                   cdfPhase, cdfWarps, dCdf, hOutputLengths>>

EncodeBlocksEnd ==
    /\ codec = "ac" /\ pc = "ac_encode"
    /\ encDone = 0..(NumChunks(inputSize) - 1)
    /\ pc' = "ac_sync"
    /\ UNCHANGED <<tsVars, hostVars_but_pc, lzVars, e8Vars, acVars>>

\* ----------------------------------------------------- arithmeticCompress
\* Lines 433-435 and 442-443, in order.
AcBuffers == <<"d_input", "d_freq", "d_cdf", "d_output", "d_outputLengths">>

AcMalloc ==
    /\ codec = "ac" /\ pc = "ac_alloc"
    /\ \E ok \in BOOLEAN :
        LET k == Cardinality(allocated) + 1
        IN  /\ allocated' = IF ok THEN allocated \cup {AcBuffers[k]} ELSE allocated
            /\ CudaCheck(ok, IF k = Len(AcBuffers) THEN "ac_copyin" ELSE "ac_alloc")
    /\ UNCHANGED <<tsVars, codec, inPat, inLead, inputSize, outCap, outputSize, hostOut,
                   hostBytes, result, lzVars, e8Vars, acVars>>

\* Line 446: the copy of the input to the device.
AcCopyIn ==
    /\ codec = "ac" /\ pc = "ac_copyin"
    /\ \E ok \in BOOLEAN : CudaCheck(ok, "ac_memset")
    /\ UNCHANGED <<tsVars, hostVars_but_pc, lzVars, e8Vars, acVars>>

\* Line 447: cudaMemset(d_freq, 0, ...).
AcMemset ==
    /\ codec = "ac" /\ pc = "ac_memset"
    /\ \E ok \in BOOLEAN :
        /\ dFreq' = IF ok THEN [s \in 0..(ALPHABET_SIZE - 1) |-> 0] ELSE dFreq
        /\ CudaCheck(ok, "ac_count")
    /\ UNCHANGED <<tsVars, hostVars_but_pc, lzVars, e8Vars, merged, temp, scanVal,
                   cdfPhase, cdfWarps, dCdf, dOutput, dOutputLengths, encDone,
                   hOutputLengths>>

\* Lines 465-466.
AcSync ==
    /\ codec = "ac" /\ pc = "ac_sync"
    /\ \E ok \in BOOLEAN, t \in Times :
        /\ CudaCheck(ok, "ac_lengths")
        /\ result' = IF ok THEN [result EXCEPT !.timeMs = t] ELSE result
    /\ UNCHANGED <<tsVars, codec, inPat, inLead, inputSize, allocated, outCap, outputSize,
                   hostOut, hostBytes, lzVars, e8Vars, acVars>>

\* Lines 469-471: h_outputLengths is allocated and filled from the device.
AcReadLengths ==
    /\ codec = "ac" /\ pc = "ac_lengths"
    /\ \E ok \in BOOLEAN :
        /\ hOutputLengths' = IF ok THEN dOutputLengths
                             ELSE [c \in 1..NumChunks(inputSize) |-> Uninit]
        /\ CudaCheck(ok, "ac_copyout")
    /\ UNCHANGED <<tsVars, hostVars_but_pc, lzVars, e8Vars, dFreq, merged, temp, scanVal,
                   cdfPhase, cdfWarps, dCdf, dOutput, dOutputLengths, encDone>>

\* Lines 473-476.
RECURSIVE TotalOutput(_, _)
TotalOutput(lengths, i) ==
    IF i > Len(lengths) THEN 0 ELSE lengths[i] + TotalOutput(lengths, i + 1)

\* Byte j of d_output as cudaMemcpy reads it: the words lie in memory least
\* significant byte first.
DeviceByte(j) ==
    IF (j \div 4) \in DOMAIN dOutput THEN dOutput[j \div 4][4 - (j % 4)] ELSE Uninit

\* A size test that lets a destination one byte too small pass.
AcFitsOffByOne(totalOutput, cap) == totalOutput <= cap + 1

\* Line 479: the test that lets the copy to h_output happen.
AcFits(totalOutput, cap) == totalOutput <= cap

\* Lines 479-486: the size test, the copy of the first totalOutput bytes of
\* d_output to h_output, the reported sizes.  *outputSize on entry is first
\* read here.
AcCopyOut ==
    /\ codec = "ac" /\ pc = "ac_copyout"
    /\ LET totalOutput == TotalOutput(hOutputLengths, 1)
       IN  \E cap \in Capacities(totalOutput), ok \in BOOLEAN :
            /\ outCap' = cap
            /\ IF totalOutput > 0 /\ AcFits(totalOutput, cap)
               THEN /\ hostOut' = IF ok THEN [j \in 1..totalOutput |-> DeviceByte(j - 1)]
                                  ELSE hostOut
                    /\ hostBytes' = IF ok THEN totalOutput ELSE hostBytes
                    /\ CudaCheck(ok, "ac_cleanup")
               ELSE /\ ok
                    /\ pc' = "ac_cleanup"
                    /\ UNCHANGED <<hostOut, hostBytes>>
            /\ outputSize' = IF pc' = "exited" THEN outputSize ELSE totalOutput
            /\ result' = IF pc' = "exited" THEN result
                         ELSE finalizeResult([result EXCEPT !.compressedSize = totalOutput])
    /\ UNCHANGED <<tsVars, codec, inPat, inLead, inputSize, allocated, lzVars, e8Vars, acVars>>

\* Lines 490-498: delete[], the five cudaFree calls and the return.
AcCleanup ==
    /\ codec = "ac" /\ pc = "ac_cleanup"
    /\ hOutputLengths' = <<>>
    /\ allocated' = allocated \ {AcBuffers[k] : k \in 1..Len(AcBuffers)}
    /\ pc' = "returned"
    /\ UNCHANGED <<tsVars, codec, inPat, inLead, inputSize, outCap, outputSize, hostOut,
                   hostBytes, result, lzVars, e8Vars, dFreq, merged, temp,
                   scanVal, cdfPhase, cdfWarps, dCdf, dOutput, dOutputLengths,
                   encDone>>

\* ----------------------------------------------- arithmetic coder claims
\* The sum of f[lo..hi-1].
RECURSIVE RangeSum(_, _, _)
RangeSum(f, lo, hi) ==
    IF hi <= lo THEN 0
    ELSE IF hi = lo + 1 THEN f[lo]
    ELSE RangeSum(f, lo, (lo + hi) \div 2) + RangeSum(f, (lo + hi) \div 2, hi)

\* buildCDF has run to its end.
CdfBuilt == codec = "ac" /\ cdfPhase = CdfStore + 1

\* C6: for a non-empty input, after countFrequencies and buildCDF, cdf[s] is
\* the sum of freq[t] over t < s for every symbol s; cdf[0] = 0, cdf is
\* non-decreasing, and cdf[255] + freq[255] is the input length.
C6_CdfPrefixSums ==
    (CdfBuilt /\ inputSize > 0) =>
        /\ \A s \in 0..(ALPHABET_SIZE - 1) : dCdf[s] = RangeSum(dFreq, 0, s)
        /\ dCdf[0] = 0
        /\ \A s \in 0..(ALPHABET_SIZE - 2) : dCdf[s] <= dCdf[s + 1]
        /\ dCdf[ALPHABET_SIZE - 1] + dFreq[ALPHABET_SIZE - 1] = inputSize

\* A table of two symbols has been scanned: cdf[1] lies strictly between 0
\* and the input length.
C6_Witness == CdfBuilt /\ inputSize > 0 /\ dCdf[1] > 0 /\ dCdf[1] < inputSize

\* The number of occurrences of byte s in the input (a byte that is neither
\* in the repeated pattern nor in the zero lead occurs nowhere).
Occurrences(s) ==
    IF (s = 0 /\ inLead > 0) \/ \E k \in DOMAIN inPat : inPat[k] = s
    THEN Cardinality({i \in 0..(inputSize - 1) : In(i) = s})
    ELSE 0

\* countFrequencies has just finished: buildCDF has not taken a step.
CountFinished == codec = "ac" /\ pc = "ac_cdf" /\ cdfPhase = 0 /\ cdfWarps = {}

\* C7: whatever the order of the merges, when countFrequencies has finished
\* globalFreq[s] is the number of occurrences of byte s in the input, for
\* all 256 symbols, and the counts sum to the input length.
C7_Frequencies ==
    CountFinished =>
        /\ \A s \in 0..(ALPHABET_SIZE - 1) : dFreq[s] = Occurrences(s)
        /\ RangeSum(dFreq, 0, ALPHABET_SIZE) = inputSize

\* Two blocks have merged their counts of one symbol.
C7_Witness ==
    /\ CountFinished
    /\ \E s \in 0..(ALPHABET_SIZE - 1) : <<0, s>> \in merged /\ <<1, s>> \in merged

\* The bitstream of chunk c: the first outputLengths[c] bytes of its slot.
ChunkBytes(c) ==
    [j \in 1..dOutputLengths[c + 1] |-> DeviceByte(c * MaxOutputPerChunk * 4 + j - 1)]

\* The chunk bitstreams from chunk c on, concatenated in chunk order.
RECURSIVE ChunkStreams(_)
ChunkStreams(c) ==
    IF c >= NumChunks(inputSize) THEN <<>>
    ELSE ChunkBytes(c) \o ChunkStreams(c + 1)

\* C9: when the destination is large enough, the bytes arithmeticCompress
\* delivers are the chunk bitstreams concatenated in chunk order, each with
\* the length recorded in outputLengths, and the delivered length is the sum
\* of the chunk lengths.
C9_ChunkConcatenation ==
    (codec = "ac" /\ pc = "returned"
        /\ AcFits(TotalOutput(dOutputLengths, 1), outCap)) =>
        /\ hostOut = ChunkStreams(0)
        /\ hostBytes = TotalOutput(dOutputLengths, 1)

\* The indices i at which block c executes `input[i]` (line 378): the loop
\* of line 377 runs from start to end.
ChunkReads(c) == ChunkStart(c)..(ChunkEnd(c) - 1)

\* C26: every chunk starts from (low, range) = (0, 2^32 - 1), and a block
\* that has encoded chunk c has read the input only at the indices from
\* 4096 c up to min(4096 (c + 1), n), none of them n or more.
C26_ChunkReads ==
    codec = "ac" =>
        /\ EncodeStart.low = <<0, 0>> /\ EncodeStart.range = <<W16 - 1, W16 - 1>>
        /\ \A c \in encDone :
              ChunkReads(c) = ChunkStart(c)..(Min(ChunkStart(c) + CHUNK_SIZE, inputSize) - 1)

\* C27: the words a block has emitted for its chunk fit the chunk's slot of
\* chunkSize / 4 + 64 = 1088 words of d_output, whatever the symbol
\* probabilities.
C27_SlotBound ==
    codec = "ac" =>
        \A c \in encDone : dOutputLengths[c + 1] <= MaxOutputPerChunk * 4

\* arithmeticCompress has passed finalizeResult (line 487).
AcFinalized == codec = "ac" /\ pc \in {"ac_cleanup", "returned"}

\* C21: on the empty input arithmeticCompress has no chunk and encodes none
\* (so nothing is divided by the total count 0 and no encoding loop is
\* entered), writes nothing to the destination, and once past its size test
\* has reported *outputSize = 0, compressedSize = 0 and ratio = 0.
C21_EmptyInput ==
    (codec = "ac" /\ inputSize = 0) =>
        /\ dOutputLengths = <<>> /\ encDone = {} /\ dOutput = <<>>
        /\ pc # "hung"
        /\ hostOut = <<>> /\ hostBytes = 0
        /\ AcFinalized =>
            /\ outputSize = 0
            /\ result.compressedSize = 0
            /\ result.ratio[1] = 0 /\ result.ratio[2] # 0

\* A call on the empty input with room in the destination has returned.
C21_Witness ==
    /\ codec = "ac" /\ inputSize = 0 /\ pc = "returned"
    /\ outCap > 0 /\ outputSize = 0

\* C23: the encoding loop of every chunk ends: range is non-zero after every
\* narrowing step, so the renormalization loop is never entered with
\* range = 0 (which no shift changes), and no block of encodeBlocks hangs.
C23_EncodeTerminates == ~(codec = "ac" /\ pc = "hung")

\* The state at the entry of arithmeticCompress, after line 422.
AcInit ==
    /\ codec = "ac" /\ pc = "ac_alloc"
    /\ \E inp \in AcInputs : inPat = inp.pat /\ inLead = inp.lead /\ inputSize = inp.n
    /\ allocated = {}
    /\ outCap = -1 /\ outputSize = -1
    /\ hostOut = <<>> /\ hostBytes = 0
    /\ result = initResult(inputSize)
    /\ LzIdle /\ E8Idle /\ TsIdle
    /\ dFreq = [s \in 0..(ALPHABET_SIZE - 1) |-> Uninit]
    /\ merged = {}
    /\ temp = [tid \in 0..(ALPHABET_SIZE - 1) |-> Uninit]
    /\ scanVal = [tid \in 0..(ALPHABET_SIZE - 1) |-> Uninit]
    /\ cdfPhase = 0 /\ cdfWarps = {}
    /\ dCdf = [s \in 0..(ALPHABET_SIZE - 1) |-> Uninit]
    /\ dOutput = <<>>
    /\ dOutputLengths = [c \in 1..NumChunks(inputSize) |-> Uninit]
    /\ encDone = {}
    /\ hOutputLengths = <<>>

AcNext ==
    \/ AcMalloc
    \/ AcCopyIn
    \/ AcMemset
    \/ CountFrequencies
    \/ CountFrequenciesEnd
    \/ \E w \in 0..7 : BuildCDF(w)
    \/ \E blockId \in 0..(NumChunks(inputSize) - 1) : EncodeBlocks(blockId)
    \/ EncodeBlocksEnd
    \/ AcSync
    \/ AcReadLengths
    \/ AcCopyOut
    \/ AcCleanup

SpecAC == AcInit /\ [][AcNext]_vars

\* ============================================================ all codecs
\* One call of one of the three entry points.
Init == LzInit \/ E8Init \/ AcInit
Next == LzNext \/ E8Next \/ AcNext
Spec == Init /\ [][Next]_vars

\* The compressed size the call computed: lz77Compress line 199,
\* e8LatticeCompress line 230, arithmeticCompress lines 473-476.
RequiredSize ==
    CASE codec = "lz" -> numTokens * 4
      [] codec = "e8" -> E8OutputBytes(inputSize)
      [] codec = "ac" -> TotalOutput(dOutputLengths, 1)

\* The size test of the driver has been passed.
PastCopyOut == pc \in {"lz_cleanup", "e8_cleanup", "ac_cleanup", "returned"}

\* C8: in each driver, when the destination capacity is smaller than the
\* required compressed size, no byte is written beyond the capacity and the
\* required size, larger than the capacity, is reported in *outputSize and
\* in result.compressedSize.
C8_SmallDestination ==
    (PastCopyOut /\ outCap < RequiredSize) =>
        /\ hostBytes <= outCap
        /\ outputSize = RequiredSize
        /\ result.compressedSize = RequiredSize
        /\ outputSize > outCap

\* arithmeticCompress has returned from a call whose destination was one
\* byte too small.
C8_Witness ==
    /\ codec = "ac" /\ pc = "returned"
    /\ outCap + 1 = RequiredSize
    /\ hostBytes = 0 /\ outputSize = RequiredSize

\* C10: on every exit path of a compress call, the return and the exit
\* after a failed step, every device buffer the call allocated has been
\* released.
C10_BuffersReleased ==
    pc \in {"returned", "exited"} => allocated = {}

\* C11: every call returns to its caller (it does not end the process), and
\* what the caller receives is the complete compressed output with errorCode
\* 0 or a result whose errorCode is non-zero; a too-small destination yields
\* a non-zero errorCode.
C11_ResultOrError ==
    /\ pc # "exited"
    /\ pc = "returned" =>
        \/ result.errorCode # 0
        \/ result.errorCode = 0 /\ hostBytes = RequiredSize
    /\ (pc = "returned" /\ outCap < RequiredSize) => result.errorCode # 0

\* ================================================ TypeScript root generators
\* generateE8Roots (Entropy Garden, websocket.ts lines 124-160) and the 8D
\* stage of generateE8Vertices (Quantum Navigator, e8lattice.ts lines 20-51),
\* run one after the other.  One step is one iteration of the innermost
\* loop that pushes.  Numbers are kept as twice their value.

\* The loop variables of `for i ... for j = i + 1 ...` after the iteration
\* (i, j): the next j, or the next i with its first j.
NextPair(i, j) == IF j < 7 THEN <<i, j + 1>> ELSE <<i + 1, i + 2>>

\* `for (const s of [-1, 1])`: the element at position k, doubled.
SignAt(k) == IF k = 0 THEN -2 ELSE 2

\* mask & (1 << b), as a truth value.
MaskBit(mask, b) == (mask \div (2 ^ b)) % 2 = 1

\* The count of lines 144-147 looking at the bits 0..6 only.
GardenMinusCountLow(mask) == Cardinality({b \in 0..6 : MaskBit(mask, b)})

\* websocket.ts lines 144-147.
GardenMinusCount(mask) == Cardinality({b \in 0..7 : MaskBit(mask, b)})

\* e8lattice.ts lines 39-42.
NavMinusCount(mask) == Cardinality({b \in 0..7 : MaskBit(mask, b)})

\* websocket.ts lines 132-135: one iteration of the four nested loops.
GardenTypeA ==
    /\ gen = "garden" /\ genPhase = "typeA"
    /\ LET zero == [d \in 1..8 |-> 0]
           root == [[zero EXCEPT ![gi + 1] = SignAt(gk \div 2)]
                          EXCEPT ![gj + 1] = SignAt(gk % 2)]
           pair == NextPair(gi, gj)
       IN  /\ roots8D' = Append(roots8D, root)
           /\ IF gk < 3
              THEN gk' = gk + 1 /\ UNCHANGED <<gi, gj, genPhase>>
              ELSE /\ gk' = 0
                   /\ gi' = pair[1] /\ gj' = pair[2]
                   \* i = 7 has no j below 8, and the loop over i ends at 8
                   /\ genPhase' = IF pair[2] < 8 THEN "typeA" ELSE "typeB"
    /\ UNCHANGED <<hostVars, lzVars, e8Vars, acVars, wsVars, gen, gmask, gardenRoots>>

\* websocket.ts lines 142-157: one iteration of the loop over mask.
GardenTypeB ==
    /\ gen = "garden" /\ genPhase = "typeB"
    /\ roots8D' = IF GardenMinusCount(gmask) % 2 = 0
                  THEN Append(roots8D,
                              [d \in 1..8 |-> IF MaskBit(gmask, d - 1) THEN -1 ELSE 1])
                  ELSE roots8D
    /\ gmask' = gmask + 1
    /\ genPhase' = IF gmask + 1 < 256 THEN "typeB" ELSE "end"
    /\ UNCHANGED <<hostVars, lzVars, e8Vars, acVars, wsVars, gen, gi, gj, gk, gardenRoots>>

\* websocket.ts line 159, and the entry of generateE8Vertices (line 21).
GardenReturn ==
    /\ gen = "garden" /\ genPhase = "end"
    /\ gardenRoots' = roots8D
    /\ gen' = "navigator" /\ genPhase' = "typeA"
    /\ roots8D' = <<>>
    /\ gi' = 0 /\ gj' = 1 /\ gk' = 0 /\ gmask' = 0
    /\ UNCHANGED <<hostVars, lzVars, e8Vars, acVars, wsVars>>

\* e8lattice.ts lines 28-31.
NavTypeA ==
    /\ gen = "navigator" /\ genPhase = "typeA"
    /\ LET zero == <<0, 0, 0, 0, 0, 0, 0, 0>>
           root == [[zero EXCEPT ![gi + 1] = SignAt(gk \div 2)]
                          EXCEPT ![gj + 1] = SignAt(gk % 2)]
           pair == NextPair(gi, gj)
       IN  /\ roots8D' = Append(roots8D, root)
           /\ IF gk < 3
              THEN gk' = gk + 1 /\ UNCHANGED <<gi, gj, genPhase>>
              ELSE /\ gk' = 0
                   /\ gi' = pair[1] /\ gj' = pair[2]
                   /\ genPhase' = IF pair[2] < 8 THEN "typeA" ELSE "typeB"
    /\ UNCHANGED <<hostVars, lzVars, e8Vars, acVars, wsVars, gen, gmask, gardenRoots>>

\* e8lattice.ts lines 45-48: the root of `mask`, pushed coordinate by
\* coordinate from b = 0.
RECURSIVE NavRoot(_, _)
NavRoot(mask, b) ==
    IF b = 8 THEN <<>>
    ELSE <<IF MaskBit(mask, b) THEN -1 ELSE 1>> \o NavRoot(mask, b + 1)

\* e8lattice.ts lines 38-51: one iteration of the loop over mask.
NavTypeB ==
    /\ gen = "navigator" /\ genPhase = "typeB"
    /\ roots8D' = IF NavMinusCount(gmask) % 2 = 0
                  THEN Append(roots8D, NavRoot(gmask, 0))
                  ELSE roots8D
    /\ gmask' = gmask + 1
    /\ genPhase' = IF gmask + 1 < 256 THEN "typeB" ELSE "end"
    /\ UNCHANGED <<hostVars, lzVars, e8Vars, acVars, wsVars, gen, gi, gj, gk, gardenRoots>>

\* e8lattice.ts line 53: the 8D stage is complete.
NavEnd ==
    /\ gen = "navigator" /\ genPhase = "end"
    /\ gen' = "done"
    /\ UNCHANGED <<hostVars, lzVars, e8Vars, acVars, wsVars, genPhase, gi, gj, gk, gmask,
                   roots8D, gardenRoots>>

\* No compress call is in progress.
HostIdle ==
    /\ codec = "none" /\ pc = "none" /\ inPat = <<>> /\ inLead = 0 /\ inputSize = 0
    /\ allocated = {} /\ outCap = -1 /\ outputSize = -1
    /\ hostOut = <<>> /\ hostBytes = 0 /\ result = initResult(0)

\* The entry of generateE8Roots (line 125).
GenInit ==
    /\ HostIdle /\ LzIdle /\ E8Idle /\ AcIdle /\ WsIdle
    /\ gen = "garden" /\ genPhase = "typeA"
    /\ gi = 0 /\ gj = 1 /\ gk = 0 /\ gmask = 0
    /\ roots8D = <<>> /\ gardenRoots = <<>>

GenNext ==
    \/ GardenTypeA
    \/ GardenTypeB
    \/ GardenReturn
    \/ NavTypeA
    \/ NavTypeB
    \/ NavEnd

SpecGen == GenInit /\ [][GenNext]_vars

\* The sum of the squares of the doubled coordinates: four times the squared
\* length.
NormSq4(root) ==
    LET RECURSIVE Acc(_)
        Acc(d) == IF d > Len(root) THEN 0 ELSE root[d] * root[d] + Acc(d + 1)
    IN  Acc(1)

\* A vector with exactly two non-zero coordinates, each +1 or -1.
IsTypeA(root) ==
    /\ Len(root) = 8
    /\ \A d \in 1..8 : root[d] \in {-2, 0, 2}
    /\ Cardinality({d \in 1..8 : root[d] # 0}) = 2

\* A vector with every coordinate +1/2 or -1/2, an even number of them -1/2.
IsTypeB(root) ==
    /\ Len(root) = 8
    /\ \A d \in 1..8 : root[d] \in {-1, 1}
    /\ Cardinality({d \in 1..8 : root[d] = -1}) % 2 = 0

\* The array is the 240 roots in the order the claim gives.
IsRootList(list) ==
    /\ Len(list) = 240
    /\ \A a, b \in 1..240 : a # b => list[a] # list[b]
    /\ \A a \in 1..112 : IsTypeA(list[a])
    /\ \A a \in 113..240 : IsTypeB(list[a])
    /\ \A a \in 1..240 : NormSq4(list[a]) = 8

\* C24: generateE8Roots and the 8D stage of generateE8Vertices each produce
\* 240 pairwise distinct vectors, the first 112 with exactly two non-zero
\* coordinates +1 or -1, the last 128 with all coordinates +1/2 or -1/2 and
\* an even number of minus signs, every one of squared length 2; and the two
\* produce the same sequence.
C24_TsRoots ==
    /\ gen \in {"navigator", "done"} => IsRootList(gardenRoots)
    /\ gen = "done" => IsRootList(roots8D) /\ roots8D = gardenRoots

\* Both generators have finished.
C24_Witness == gen = "done" /\ Len(roots8D) = 240 /\ Len(gardenRoots) = 240

\* ========================================================= EntropyWebSocket
\* The class of websocket.ts lines 23-103 in a browser: the application calls
\* connect() and disconnect(), the browser delivers the open and close
\* events of every WebSocket that still has its handlers (none is ever
\* removed), and the callbacks given to setTimeout run some time after their
\* delay.  Time is not modelled: a pending timer may fire at any moment.

\* Most WebSocket objects created in one run.
MaxSockets == 5

\* websocket.ts line 26: the initial value of reconnectDelay, assigned again
\* by onopen (line 50).
initialReconnectDelay == 1000
\* websocket.ts line 27.
maxReconnectDelay == 10000

\* The doubling of line 78 without the cap.
NextDelayUncapped(d) == d * 2

\* websocket.ts line 78: Math.min(this.reconnectDelay * 2, this.maxReconnectDelay).
NextDelay(d) == Min(d * 2, maxReconnectDelay)

\* WebSocket.close(): a socket that is connecting or open starts closing, and
\* its close event follows later; on a closing or closed socket the call does
\* nothing.
SocketClose(states, s) ==
    IF states[s] \in {"connecting", "open"} THEN [states EXCEPT ![s] = "closing"]
    ELSE states

\* Lines 40-45 of connect(): the socket states after `this.ws.close()` on the
\* current socket, if there is one, and `new WebSocket(this.url)`.
ConnectSockets ==
    Append(IF ws # 0 THEN SocketClose(sockState, ws) ELSE sockState, "connecting")

\* The sequence t without its k-th element.
RemoveAt(t, k) == SubSeq(t, 1, k - 1) \o SubSeq(t, k + 1, Len(t))

\* The application calls connect() (lines 39-73).
WsConnect ==
    /\ reconnectDelay > 0
    /\ Len(sockState) < MaxSockets
    /\ sockState' = ConnectSockets
    /\ ws' = Len(sockState) + 1
    /\ userClosed' = FALSE
    /\ UNCHANGED <<hostVars, lzVars, e8Vars, acVars, genVars, timers, reconnectDelay,
                   connected>>

\* A callback of line 77 runs: `() => this.connect()`.
WsTimerFire(k) ==
    /\ k \in DOMAIN timers
    /\ Len(sockState) < MaxSockets
    /\ timers' = RemoveAt(timers, k)
    /\ sockState' = ConnectSockets
    /\ ws' = Len(sockState) + 1
    /\ UNCHANGED <<hostVars, lzVars, e8Vars, acVars, genVars, reconnectDelay, connected,
                   userClosed>>

\* The open event of socket s: onopen, lines 47-52.
WsOpen(s) ==
    /\ s \in DOMAIN sockState
    /\ sockState[s] = "connecting"
    /\ sockState' = [sockState EXCEPT ![s] = "open"]
    /\ connected' = TRUE
    /\ reconnectDelay' = initialReconnectDelay
    /\ UNCHANGED <<hostVars, lzVars, e8Vars, acVars, genVars, ws, timers, userClosed>>

\* The close event of socket s (the connection failed, was lost, or close()
\* was called on it): onclose, lines 63-68, and scheduleReconnect, lines
\* 75-79.
WsClose(s) ==
    /\ s \in DOMAIN sockState
    /\ sockState[s] \in {"connecting", "open", "closing"}
    /\ sockState' = [sockState EXCEPT ![s] = "closed"]
    /\ connected' = FALSE
    /\ timers' = Append(timers, reconnectDelay)
    /\ reconnectDelay' = NextDelay(reconnectDelay)
    /\ UNCHANGED <<hostVars, lzVars, e8Vars, acVars, genVars, ws, userClosed>>

\* The application calls disconnect() (lines 97-102).
WsDisconnect ==
    /\ reconnectDelay > 0
    /\ sockState' = IF ws # 0 THEN SocketClose(sockState, ws) ELSE sockState
    /\ ws' = 0
    /\ userClosed' = TRUE
    /\ UNCHANGED <<hostVars, lzVars, e8Vars, acVars, genVars, timers, reconnectDelay,
                   connected>>

\* The object after its constructor (lines 24-33).
WsInit ==
    /\ HostIdle /\ LzIdle /\ E8Idle /\ AcIdle /\ GenIdle
    /\ ws = 0 /\ sockState = <<>> /\ timers = <<>>
    /\ reconnectDelay = initialReconnectDelay
    /\ connected = FALSE /\ userClosed = FALSE

WsNext ==
    \/ WsConnect
    \/ \E k \in 1..MaxSockets : WsTimerFire(k)
    \/ \E s \in 1..MaxSockets : WsOpen(s)
    \/ \E s \in 1..MaxSockets : WsClose(s)
    \/ WsDisconnect

SpecWS == WsInit /\ [][WsNext]_vars

\* A callback handed to setTimeout is run by the browser's event loop.
SpecWSLive == SpecWS /\ WF_vars(\E k \in 1..MaxSockets : WsTimerFire(k))

\* C29: from disconnect() until the application's next connect() no new
\* WebSocket is created.
C29_NoReconnectAfterDisconnect ==
    [][(userClosed /\ userClosed') => Len(sockState') = Len(sockState)]_vars

\* The values the claim allows for reconnectDelay.
DelayValues == {1000, 2000, 4000, 8000, 10000}

\* A close event has been handled in this step.
ClosedNow == \E s \in DOMAIN sockState : sockState[s] # "closed" /\ sockState'[s] = "closed"

\* An open event has been handled in this step.
OpenedNow == \E s \in DOMAIN sockState : sockState[s] # "open" /\ sockState'[s] = "open"

\* C30: reconnectDelay is always one of 1000, 2000, 4000, 8000, 10000; a
\* close schedules exactly one reconnect with the delay current at that
\* moment and then doubles the delay, capped at 10000; an open resets the
\* delay to 1000; nothing else changes the delay or schedules a reconnect;
\* and while a reconnect is scheduled a new connection attempt follows.
C30_Backoff ==
    /\ [](reconnectDelay \in DelayValues)
    /\ [][/\ ClosedNow =>
                /\ timers' = Append(timers, reconnectDelay)
                /\ reconnectDelay' = IF reconnectDelay * 2 <= 10000
                                     THEN reconnectDelay * 2 ELSE 10000
          /\ OpenedNow => reconnectDelay' = 1000 /\ timers' = timers
          /\ ~ClosedNow => Len(timers') <= Len(timers)
          /\ ~(ClosedNow \/ OpenedNow) => reconnectDelay' = reconnectDelay]_vars
    /\ \A n \in 0..(MaxSockets - 1) :
          (timers # <<>> /\ Len(sockState) = n) ~> (Len(sockState) > n)

\* Four closes in a row have brought the delay to the cap, and the reconnect
\* of the last one is pending with the delay before it.
C30_Witness ==
    /\ reconnectDelay = 10000
    /\ timers # <<>> /\ timers[Len(timers)] = 8000
    /\ \E s \in DOMAIN sockState : sockState[s] = "closed"

====
